---- MODULE Spec2Model ----
(***************************************************************************)
(* Model of upstash-lua: the per-connection single-flight script load      *)
(* cache (ensureLoaded), the EVALSHA / NOSCRIPT / SCRIPT LOAD / retry      *)
(* protocol (evalWithCache) and the run / runRaw pipeline of defineScript  *)
(* (validateAndCollect, getSha, evalWithCache, return validation).         *)
(*                                                                         *)
(* JavaScript is single threaded: every action below is one synchronous    *)
(* section of the code, from one suspension point (await) to the next.     *)
(* The transport (RedisLike) and the validation capabilities are external: *)
(* their answers are nondeterministic choices.                             *)
(***************************************************************************)
EXTENDS Integers, Sequences, FiniteSets, TLC

(***************************************************************************)
(* Bounds                                                                  *)
(***************************************************************************)
\* number of calls (invocations of ensureLoaded / evalWithCache / run) made
MaxCalls == 2

\* number of those calls that may be run / runRaw
MaxRuns == 1

Calls == 1..MaxCalls

(***************************************************************************)
(* Values                                                                  *)
(***************************************************************************)
\* RedisLike client objects (identity is what the WeakMap is keyed by)
Conns == {"A", "B"}

\* content hashes and the script source each one belongs to
Hashes == {"h1", "h2"}

\* script source texts
Str_s1 == <<"s", "1">>
Str_s2 == <<"s", "2">>

SourceOf(sha) == IF sha = "h1" THEN Str_s1 ELSE Str_s2

\* a JavaScript string is modelled as a tuple of one-character strings
Str_NOSCRIPT == <<"N", "O", "S", "C", "R", "I", "P", "T">>
Str_noscript == <<"E", "R", "R", " ", "N", "o", "s", "c", "r", "i", "p", "t">>
Str_timeout == <<"t", "i", "m", "e", "o", "u", "t">>
Str_loadfail == <<"l", "o", "a", "d">>

\* thrown values: Error objects, strings, anything else
JsError(msg) == [kind |-> "Error", message |-> msg]
JsString(s) == [kind |-> "string", message |-> s]
JsOther == [kind |-> "other", message |-> <<>>]

ErrNoScript == JsError(Str_NOSCRIPT)
ErrNoScriptLower == JsError(Str_noscript)
ErrTimeout == JsError(Str_timeout)
ErrLoad == JsError(Str_loadfail)

\* settled results of a promise
Ok(v) == [tag |-> "ok", value |-> v, error |-> JsOther]
Err(e) == [tag |-> "err", value |-> "", error |-> e]
NoResult == [tag |-> "none", value |-> "", error |-> JsOther]

\* what the store may answer to evalsha and to scriptLoad
EvalshaAnswers == {Ok("v1"), Ok("v2"), Err(ErrNoScript), Err(ErrTimeout)}
ScriptLoadAnswers == {Ok("sha"), Err(ErrLoad)}

\* the answers drawn for the first evalsha of a call and for its retry: the
\* store returns another value on the retry
FirstAnswers == EvalshaAnswers \ {Ok("v2")}
RetryAnswers == EvalshaAnswers \ {Ok("v1")}

\* keys / args arrays handed to evalWithCache by a direct caller
ArgChoices == {[keys |-> <<"k1">>, args |-> <<"a1", "a2">>]}

(***************************************************************************)
(* String.prototype.toUpperCase / includes                                 *)
(***************************************************************************)
ToUpperChar(ch) ==
  CASE ch = "n" -> "N" [] ch = "o" -> "O" [] ch = "s" -> "S" [] ch = "c" -> "C"
    [] ch = "r" -> "R" [] ch = "i" -> "I" [] ch = "p" -> "P" [] ch = "t" -> "T"
    [] ch = "m" -> "M" [] ch = "e" -> "E" [] ch = "u" -> "U" [] ch = "l" -> "L"
    [] ch = "a" -> "A" [] ch = "d" -> "D" [] ch = "x" -> "X"
    [] OTHER -> ch

toUpperCase_Identity(s) == s

toUpperCase(s) == [i \in 1..Len(s) |-> ToUpperChar(s[i])]

includes(s, t) == \E i \in 0..(Len(s) - Len(t)) : SubSeq(s, i + 1, i + Len(t)) = t

isNoScriptError(error) ==
  IF error.kind = "Error" THEN includes(toUpperCase(error.message), Str_NOSCRIPT)
  ELSE IF error.kind = "string" THEN includes(toUpperCase(error.message), Str_NOSCRIPT)
  ELSE FALSE

(***************************************************************************)
(* Script definitions (the object defineScript returns)                    *)
(***************************************************************************)
\* sha1Hex: the content hash of a source text
sha1Hex(text) == IF text = Str_s1 THEN "h1" ELSE "h2"

Definition(name, lua, keyNames, argNames, returns) ==
  [name |-> name, lua |-> lua, keyNames |-> keyNames, argNames |-> argNames, returns |-> returns]

NoDef == Definition("", << >>, <<>>, <<>>, FALSE)

\* the definitions the run / runRaw specification draws from
Defs ==
  { Definition("d1", Str_s1, <<"k1", "k2">>, <<"a1">>, TRUE),
    Definition("d2", Str_s2, <<"k2">>, <<"a2", "a1">>, FALSE),
    Definition("d3", Str_s1, <<>>, <<>>, TRUE) }

(***************************************************************************)
(* State                                                                   *)
(***************************************************************************)
VARIABLES
  loadCache,  \* WeakMap<RedisLike, Map<sha, Promise>>: conn -> (sha -> promise id)
  promises,   \* the load promises created so far, by id
  calls,      \* the invocations: position, arguments, results, transport calls
  def,        \* the script definition run / runRaw are called on
  cachedSha,  \* the definition's memoized content hash ("" when undefined)
  shaCalls,   \* number of sha1Hex computations started for the definition
  decl,       \* the object a caller is about to hand to defineScript
  defineLog,  \* the defineScript calls made: argument, builder calls, outcome
  compileLog, \* the compileLua calls made: arguments, references emitted, result
  keyIndexMap, \* compileLua's Map from key name to index, as the last call left it
  argIndexMap  \* compileLua's Map from arg name to index, as the last call left it

\* the state of definition time: defineScript, resolveLua and compileLua
templateVars == <<decl, defineLog, compileLog, keyIndexMap, argIndexMap>>

vars == <<loadCache, promises, calls, def, cachedSha, shaCalls, templateVars>>

\* JavaScript values handed to and returned by validation capabilities
Undefined == [type |-> "undefined", v |-> <<>>]
JsStr(v) == [type |-> "string", v |-> v]
JsNum(v) == [type |-> "number", v |-> v]

NoInput == [keys |-> << >>, args |-> << >>]

IdleCall ==
  [op |-> "none", pc |-> "idle", redis |-> "", sha |-> "", script |-> << >>,
   keys |-> <<>>, args |-> <<>>, r1 |-> NoResult, r2 |-> NoResult,
   loadP |-> 0, initiator |-> FALSE, io |-> <<>>, outcome |-> NoResult,
   input |-> NoInput, vlog |-> <<>>, vres |-> NoResult, retlog |-> <<>>]

\* transport calls a call has issued
IoEvalsha(sha, keys, args) == [cmd |-> "evalsha", what |-> sha, keys |-> keys, args |-> args]
IoScriptLoad(script) == [cmd |-> "scriptLoad", what |-> script, keys |-> <<>>, args |-> <<>>]

IoEval(script, keys, args) == [cmd |-> "eval", what |-> script, keys |-> keys, args |-> args]

CountCmd(io, cmd) == Cardinality({i \in 1..Len(io) : io[i].cmd = cmd})
nEvalsha(c) == CountCmd(calls[c].io, "evalsha")
nScriptLoad(c) == CountCmd(calls[c].io, "scriptLoad")
nEval(c) == CountCmd(calls[c].io, "eval")

\* no defineScript call is pending or made, no compileLua call was made
NoDecl == [name |-> "", keys |-> << >>, args |-> << >>, lua |-> [form |-> "none"], returns |-> FALSE]

TemplateIdle ==
  /\ decl = NoDecl
  /\ defineLog = << >>
  /\ compileLog = << >>
  /\ keyIndexMap = << >>
  /\ argIndexMap = << >>

Init ==
  /\ loadCache = << >>
  /\ promises = << >>
  /\ calls = [c \in Calls |-> IdleCall]
  /\ def = NoDef
  /\ cachedSha = ""
  /\ shaCalls = 0
  /\ TemplateIdle

(***************************************************************************)
(* Output phase of run / runRaw                                            *)
(***************************************************************************)
\* a return capability answers with a transformed value or with issues
Transformed(raw) == IF raw = "v1" THEN "t1" ELSE "t2"
Issue_return == <<"bad return">>

ScriptReturnError_NoRaw(scriptName, issues, raw) ==
  [kind |-> "ScriptReturnError", scriptName |-> scriptName, path |-> <<>>, issues |-> issues, raw |-> ""]

ScriptReturnError(scriptName, issues, raw) ==
  [kind |-> "ScriptReturnError", scriptName |-> scriptName, path |-> <<>>, issues |-> issues, raw |-> raw]

Settle_AlwaysParse(call, result) ==
  IF call.op \in {"run", "runRaw"} /\ result.tag = "ok" /\ def.returns
  THEN [call EXCEPT !.pc = "awaitReturn", !.retlog = Append(@, result.value)]
  ELSE [call EXCEPT !.pc = "done", !.outcome = result]

\* the call's record once execute / ensureLoaded / evalWithCache has settled
\* with result: run hands a raw result to the `returns` capability when one
\* is configured; every other case settles the call with result
Settle(call, result) ==
  IF call.op = "run" /\ result.tag = "ok" /\ def.returns
  THEN [call EXCEPT !.pc = "awaitReturn", !.retlog = Append(@, result.value)]
  ELSE [call EXCEPT !.pc = "done", !.outcome = result]

(***************************************************************************)
(* LoadCache                                                               *)
(***************************************************************************)
\* the key the WeakMap holds a client's Map under: the client object itself
CacheKey_Shared(redis) == "A"

CacheKey(redis) == redis

\* getClientCache: the client's Map, created and registered when missing
getClientCache(lc, redis) ==
  IF CacheKey(redis) \in DOMAIN lc
  THEN lc
  ELSE [r \in (DOMAIN lc) \cup {CacheKey(redis)} |-> IF r = CacheKey(redis) THEN << >> ELSE lc[r]]

\* Map.get (0 stands for undefined), Map.set, Map.delete
MapGet_Undefined(m, k) == 0

MapGet(m, k) == IF k \in DOMAIN m THEN m[k] ELSE 0
MapSet(m, k, v) == [x \in (DOMAIN m) \cup {k} |-> IF x = k THEN v ELSE m[x]]
MapDelete(m, k) == [x \in (DOMAIN m) \ {k} |-> m[x]]

\* the client's Map after the initiator's `await loadPromise` has settled:
\* the catch block deletes the entry, success leaves it
CacheAfterLoad_Finally(cache, sha, state) == MapDelete(cache, sha)

CacheAfterLoad_Keep(cache, sha, state) == cache

CacheAfterLoad(cache, sha, state) ==
  IF state = "rejected" THEN MapDelete(cache, sha) ELSE cache

EnsureLoadedEnter_RegisterLate(c, call) ==
  LET lc == getClientCache(loadCache, call.redis)
      cache == lc[CacheKey(call.redis)]
      existing == MapGet(cache, call.sha)
      p == Len(promises) + 1
  IN IF existing # 0
     THEN /\ loadCache' = lc
          /\ promises' = promises
          /\ calls' = [calls EXCEPT ![c] =
                 [call EXCEPT !.pc = "awaitLoad", !.loadP = existing, !.initiator = FALSE]]
     ELSE /\ promises' = Append(promises,
                [state |-> "pending", result |-> NoResult, handled |-> FALSE,
                 redis |-> call.redis, sha |-> call.sha, script |-> call.script])
          /\ loadCache' = lc
          /\ calls' = [calls EXCEPT ![c] =
                 [call EXCEPT !.pc = "awaitLoad", !.loadP = p, !.initiator = TRUE,
                              !.io = Append(@, IoScriptLoad(call.script))]]

EnsureLoadedEnter_ReplaceFailed(c, call) ==
  LET lc == getClientCache(loadCache, call.redis)
      cache == lc[CacheKey(call.redis)]
      existing == MapGet(cache, call.sha)
  IN IF existing # 0 /\ promises[existing].state # "rejected"
     THEN /\ loadCache' = lc
          /\ promises' = promises
          /\ calls' = [calls EXCEPT ![c] =
                 [call EXCEPT !.pc = "awaitLoad", !.loadP = existing, !.initiator = FALSE]]
     ELSE LET p == Len(promises) + 1
          IN /\ promises' = Append(promises,
                    [state |-> "pending", result |-> NoResult, handled |-> FALSE,
                     redis |-> call.redis, sha |-> call.sha, script |-> call.script])
             /\ loadCache' = [lc EXCEPT ![CacheKey(call.redis)] = MapSet(cache, call.sha, p)]
             /\ calls' = [calls EXCEPT ![c] =
                    [call EXCEPT !.pc = "awaitLoad", !.loadP = p, !.initiator = TRUE,
                                 !.io = Append(@, IoScriptLoad(call.script))]]

\* the synchronous section of ensureLoaded, up to its await: on a hit the
\* call returns (joins) the existing promise; on a miss it calls
\* redis.scriptLoad, which creates the load promise, and registers it with
\* cache.set
EnsureLoadedEnter(c, call) ==
  LET lc == getClientCache(loadCache, call.redis)
      cache == lc[CacheKey(call.redis)]
      existing == MapGet(cache, call.sha)
  IN IF existing # 0
     THEN /\ loadCache' = lc
          /\ promises' = promises
          /\ calls' = [calls EXCEPT ![c] =
                 [call EXCEPT !.pc = "awaitLoad", !.loadP = existing, !.initiator = FALSE]]
     ELSE LET p == Len(promises) + 1
          IN /\ promises' = Append(promises,
                    [state |-> "pending", result |-> NoResult, handled |-> FALSE,
                     redis |-> call.redis, sha |-> call.sha, script |-> call.script])
             /\ loadCache' = [lc EXCEPT ![CacheKey(call.redis)] = MapSet(cache, call.sha, p)]
             /\ calls' = [calls EXCEPT ![c] =
                    [call EXCEPT !.pc = "awaitLoad", !.loadP = p, !.initiator = TRUE,
                                 !.io = Append(@, IoScriptLoad(call.script))]]

\* calls are numbered in the order they are made
NextToCall(c) ==
  /\ calls[c].pc = "idle"
  /\ \A d \in Calls : d < c => calls[d].pc # "idle"

\* a caller invokes ensureLoaded(redis, sha, script)
ensureLoaded(c, redis, sha) ==
  /\ NextToCall(c)
  /\ EnsureLoadedEnter(c, [IdleCall EXCEPT !.op = "ensureLoaded", !.redis = redis,
                                            !.sha = sha, !.script = SourceOf(sha)])
  /\ UNCHANGED <<def, templateVars, cachedSha, shaCalls>>

\* the store answers a scriptLoad: the load promise settles
ScriptLoadRespond(p, ans) ==
  /\ p \in 1..Len(promises)
  /\ promises[p].state = "pending"
  /\ promises' = [promises EXCEPT ![p].state = IF ans.tag = "ok" THEN "fulfilled" ELSE "rejected",
                                  ![p].result = IF ans.tag = "ok" THEN Ok("") ELSE ans]
  /\ UNCHANGED <<loadCache, calls, def, templateVars, cachedSha, shaCalls>>

\* whether the promise a call awaits in ensureLoaded has settled
LoadSettled_NoAwait(state) == TRUE

LoadSettled(state) == state # "pending"

EnsureLoadedResume_Swallow(c) ==
  LET call == calls[c]
      p == call.loadP
      state == promises[p].state
  IN /\ call.pc = "awaitLoad"
     /\ LoadSettled(state)
     /\ call.initiator \/ promises[p].handled
     /\ promises' = IF call.initiator THEN [promises EXCEPT ![p].handled = TRUE] ELSE promises
     /\ loadCache' = IF call.initiator
                     THEN [loadCache EXCEPT ![CacheKey(call.redis)] = CacheAfterLoad(@, call.sha, state)]
                     ELSE loadCache
     /\ IF call.op = "ensureLoaded"
        THEN calls' = [calls EXCEPT ![c] =
                 Settle(call, IF state = "rejected" THEN promises[p].result ELSE Ok(""))]
        ELSE calls' = [calls EXCEPT ![c].pc = "awaitEvalsha2",
                         ![c].io = Append(@, IoEvalsha(call.sha, call.keys, call.args))]
     /\ UNCHANGED <<def, templateVars, cachedSha, shaCalls>>

EnsureLoadedResume_RetryNoArgs(c) ==
  LET call == calls[c]
      p == call.loadP
      state == promises[p].state
  IN /\ call.pc = "awaitLoad"
     /\ LoadSettled(state)
     /\ call.initiator \/ promises[p].handled
     /\ promises' = IF call.initiator THEN [promises EXCEPT ![p].handled = TRUE] ELSE promises
     /\ loadCache' = IF call.initiator
                     THEN [loadCache EXCEPT ![CacheKey(call.redis)] = CacheAfterLoad(@, call.sha, state)]
                     ELSE loadCache
     /\ IF state = "rejected"
        THEN calls' = [calls EXCEPT ![c] = Settle(call, promises[p].result)]
        ELSE IF call.op = "ensureLoaded"
        THEN calls' = [calls EXCEPT ![c] = Settle(call, Ok(""))]
        ELSE calls' = [calls EXCEPT ![c].pc = "awaitEvalsha2",
                         ![c].io = Append(@, IoEvalsha(call.sha, call.keys, << >>))]
     /\ UNCHANGED <<def, templateVars, cachedSha, shaCalls>>

EnsureLoadedResume_InitiatorOnly(c) ==
  LET call == calls[c]
      p == call.loadP
      state == promises[p].state
  IN /\ call.pc = "awaitLoad"
     /\ LoadSettled(state)
     /\ call.initiator
     /\ promises' = [promises EXCEPT ![p].handled = TRUE]
     /\ loadCache' = [loadCache EXCEPT ![CacheKey(call.redis)] = CacheAfterLoad(@, call.sha, state)]
     /\ IF state = "rejected"
        THEN calls' = [calls EXCEPT ![c] = Settle(call, promises[p].result)]
        ELSE IF call.op = "ensureLoaded"
        THEN calls' = [calls EXCEPT ![c] = Settle(call, Ok(""))]
        ELSE calls' = [calls EXCEPT ![c].pc = "awaitEvalsha2",
                         ![c].io = Append(@, IoEvalsha(call.sha, call.keys, call.args))]
     /\ UNCHANGED <<def, templateVars, cachedSha, shaCalls>>

\* ensureLoaded resumes after its await (the initiator after `await
\* loadPromise`, a joiner when the promise it returned settles).  The
\* initiator's reaction is registered on the promise first, so it runs
\* before any joiner's.  On failure the initiator deletes the entry.  The
\* completion reaches the awaiting evalWithCache frame, which on success
\* issues the second evalsha.
EnsureLoadedResume(c) ==
  LET call == calls[c]
      p == call.loadP
      state == promises[p].state
  IN /\ call.pc = "awaitLoad"
     /\ LoadSettled(state)
     /\ call.initiator \/ promises[p].handled
     /\ promises' = IF call.initiator THEN [promises EXCEPT ![p].handled = TRUE] ELSE promises
     /\ loadCache' = IF call.initiator
                     THEN [loadCache EXCEPT ![CacheKey(call.redis)] = CacheAfterLoad(@, call.sha, state)]
                     ELSE loadCache
     /\ IF state = "rejected"
        THEN calls' = [calls EXCEPT ![c] = Settle(call, promises[p].result)]
        ELSE IF call.op = "ensureLoaded"
        THEN calls' = [calls EXCEPT ![c] = Settle(call, Ok(""))]
        ELSE calls' = [calls EXCEPT ![c].pc = "awaitEvalsha2",
                         ![c].io = Append(@, IoEvalsha(call.sha, call.keys, call.args))]
     /\ UNCHANGED <<def, templateVars, cachedSha, shaCalls>>

(***************************************************************************)
(* ExecutionEngine                                                         *)
(***************************************************************************)
\* evalWithCache up to its first await: redis.evalsha(sha, keys, args)
EvalWithCacheEnter(call) ==
  [call EXCEPT !.pc = "awaitEvalsha1", !.io = Append(@, IoEvalsha(call.sha, call.keys, call.args))]

\* a caller invokes evalWithCache(redis, {script, sha, keys, args})
evalWithCache(c, redis, sha, ka) ==
  /\ NextToCall(c)
  /\ calls' = [calls EXCEPT ![c] =
        EvalWithCacheEnter([IdleCall EXCEPT !.op = "evalWithCache", !.redis = redis, !.sha = sha,
                               !.script = SourceOf(sha), !.keys = ka.keys, !.args = ka.args])]
  /\ UNCHANGED <<loadCache, promises, def, templateVars, cachedSha, shaCalls>>

EvalWithCacheAfterFirst_LoadOnAnyError(c, ans) ==
  LET call == [calls[c] EXCEPT !.r1 = ans]
  IN /\ calls[c].pc = "awaitEvalsha1"
     /\ IF ans.tag = "ok"
        THEN /\ calls' = [calls EXCEPT ![c] = Settle(call, ans)]
             /\ UNCHANGED <<loadCache, promises>>
        ELSE EnsureLoadedEnter(c, call)
     /\ UNCHANGED <<def, templateVars, cachedSha, shaCalls>>

EvalWithCacheAfterFirst_Surface(c, ans) ==
  /\ calls[c].pc = "awaitEvalsha1"
  /\ calls' = [calls EXCEPT ![c] = Settle([calls[c] EXCEPT !.r1 = ans], ans)]
  /\ UNCHANGED <<loadCache, promises, def, templateVars, cachedSha, shaCalls>>

EvalWithCacheAfterFirst_LoadFirst(c, ans) ==
  LET call == [calls[c] EXCEPT !.r1 = ans]
  IN /\ calls[c].pc = "awaitEvalsha1"
     /\ IF ans.tag = "err" /\ ~isNoScriptError(ans.error)
        THEN /\ calls' = [calls EXCEPT ![c] = Settle(call, ans)]
             /\ UNCHANGED <<loadCache, promises>>
        ELSE EnsureLoadedEnter(c, call)
     /\ UNCHANGED <<def, templateVars, cachedSha, shaCalls>>

\* evalWithCache resumes when the store has answered the first evalsha with
\* ans: return the value, rethrow an error that is not NOSCRIPT, otherwise
\* call ensureLoaded
EvalWithCacheAfterFirst(c, ans) ==
  LET call == [calls[c] EXCEPT !.r1 = ans]
  IN /\ calls[c].pc = "awaitEvalsha1"
     /\ IF ans.tag = "ok"
        THEN /\ calls' = [calls EXCEPT ![c] = Settle(call, ans)]
             /\ UNCHANGED <<loadCache, promises>>
        ELSE IF ~isNoScriptError(ans.error)
        THEN /\ calls' = [calls EXCEPT ![c] = Settle(call, ans)]
             /\ UNCHANGED <<loadCache, promises>>
        ELSE EnsureLoadedEnter(c, call)
     /\ UNCHANGED <<def, templateVars, cachedSha, shaCalls>>

EvalWithCacheAfterSecond_FirstResult(c, ans) ==
  /\ calls[c].pc = "awaitEvalsha2"
  /\ calls' = [calls EXCEPT ![c] = Settle([calls[c] EXCEPT !.r2 = ans], calls[c].r1)]
  /\ UNCHANGED <<loadCache, promises, def, templateVars, cachedSha, shaCalls>>

EvalWithCacheAfterSecond_RetryLoop(c, ans) ==
  /\ calls[c].pc = "awaitEvalsha2"
  /\ IF ans.tag = "err" /\ isNoScriptError(ans.error)
     THEN EnsureLoadedEnter(c, [calls[c] EXCEPT !.r2 = ans])
     ELSE /\ calls' = [calls EXCEPT ![c] = Settle([calls[c] EXCEPT !.r2 = ans], ans)]
          /\ UNCHANGED <<loadCache, promises>>
  /\ UNCHANGED <<def, templateVars, cachedSha, shaCalls>>

EvalWithCacheAfterSecond_Wrap(c, ans) ==
  /\ calls[c].pc = "awaitEvalsha2"
  /\ calls' = [calls EXCEPT ![c] =
        Settle([calls[c] EXCEPT !.r2 = ans], IF ans.tag = "err" THEN Err(ErrLoad) ELSE ans)]
  /\ UNCHANGED <<loadCache, promises, def, templateVars, cachedSha, shaCalls>>

EvalWithCacheAfterSecond_EvalFallback(c, ans) ==
  LET call == [calls[c] EXCEPT !.r2 = ans]
  IN /\ calls[c].pc = "awaitEvalsha2"
     /\ calls' = [calls EXCEPT ![c] =
           IF ans.tag = "err"
           THEN Settle([call EXCEPT !.io = Append(@, IoEval(call.script, call.keys, call.args))], ans)
           ELSE Settle(call, ans)]
     /\ UNCHANGED <<loadCache, promises, def, templateVars, cachedSha, shaCalls>>

EvalWithCacheAfterSecond_Evict(c, ans) ==
  /\ calls[c].pc = "awaitEvalsha2"
  /\ calls' = [calls EXCEPT ![c] = Settle([calls[c] EXCEPT !.r2 = ans], ans)]
  /\ loadCache' = IF ans.tag = "err" /\ isNoScriptError(ans.error)
                  THEN [loadCache EXCEPT ![CacheKey(calls[c].redis)] = MapDelete(@, calls[c].sha)]
                  ELSE loadCache
  /\ UNCHANGED <<promises, def, templateVars, cachedSha, shaCalls>>

\* evalWithCache resumes when the store has answered the second evalsha
\* with ans: that outcome is final
EvalWithCacheAfterSecond(c, ans) ==
  /\ calls[c].pc = "awaitEvalsha2"
  /\ calls' = [calls EXCEPT ![c] = Settle([calls[c] EXCEPT !.r2 = ans], ans)]
  /\ UNCHANGED <<loadCache, promises, def, templateVars, cachedSha, shaCalls>>

(***************************************************************************)
(* ValidationBoundary and execute (run / runRaw)                           *)
(***************************************************************************)
FieldOrder_ArgsFirst(d) ==
  [i \in 1..(Len(d.keyNames) + Len(d.argNames)) |->
     IF i <= Len(d.argNames)
     THEN [kind |-> "args", name |-> d.argNames[i]]
     ELSE [kind |-> "keys", name |-> d.keyNames[i - Len(d.argNames)]]]

\* the declared fields in the order validateAndCollect visits them: the
\* loop over keyNames, then the loop over argNames
FieldOrder(d) ==
  [i \in 1..(Len(d.keyNames) + Len(d.argNames)) |->
     IF i <= Len(d.keyNames)
     THEN [kind |-> "keys", name |-> d.keyNames[i]]
     ELSE [kind |-> "args", name |-> d.argNames[i - Len(d.keyNames)]]]

\* `keys.${keyName}` / `args.${argName}`
PathOf(f) == <<f.kind, f.name>>

\* input.keys?.[keyName] / input.args?.[argName]
InputValue(input, f) ==
  LET m == IF f.kind = "keys" THEN input.keys ELSE input.args
  IN IF f.name \in DOMAIN m THEN m[f.name] ELSE Undefined

\* the inputs a caller may pass: every declared field given, or none
GivenValue(name) == JsNum(name)
InputsOf(d) ==
  LET Range(q) == {q[i] : i \in 1..Len(q)}
  IN {[keys |-> [n \in Range(d.keyNames) |-> GivenValue(n)],
       args |-> [n \in Range(d.argNames) |-> GivenValue(n)]],
      NoInput}

\* what a field's capability may answer: a string output, an output that
\* is not a string, or issues; at once or by a deferred completion
VPending == [tag |-> "pending", value |-> Undefined, issues |-> <<>>]
Issue_input == <<"must be positive">>
AnswerKinds == {"string", "nonstring", "issues"}
Modes == {"sync", "deferred"}
CapChoices == [mode : Modes, kind : AnswerKinds]

CapResult(kind, f, value) ==
  CASE kind = "string" -> [tag |-> "ok", value |-> JsStr(<<f.name, value.type>>), issues |-> <<>>]
    [] kind = "nonstring" -> [tag |-> "ok", value |-> JsNum(f.name), issues |-> <<>>]
    [] OTHER -> [tag |-> "fail", value |-> Undefined, issues |-> Issue_input]

ScriptInputError_ReturnBranch(scriptName, path, issues) ==
  [kind |-> "ScriptReturnError", scriptName |-> scriptName, path |-> << >>, issues |-> issues, raw |-> ""]

ScriptInputError(scriptName, path, issues) ==
  [kind |-> "ScriptInputError", scriptName |-> scriptName, path |-> path, issues |-> issues, raw |-> ""]

TypeErrorFor(f) ==
  [kind |-> "TypeError", scriptName |-> "", path |-> PathOf(f), issues |-> <<>>, raw |-> ""]

\* execute, from the point where the fields invoked so far have all been
\* collected: validateAndCollect invokes the next field's capability with
\* the caller's value (cap is how that capability answers); after the last
\* field getSha starts sha1Hex when nothing is memoized, otherwise
\* evalWithCache is entered with the memoized hash
ExecuteContinue(c, call, cap) ==
  LET fields == FieldOrder(def)
      n == Len(call.vlog)
  IN IF n < Len(fields)
     THEN LET f == fields[n + 1]
              value == InputValue(call.input, f)
              result == IF cap.mode = "sync" THEN CapResult(cap.kind, f, value) ELSE VPending
          IN /\ calls' = [calls EXCEPT ![c] =
                   [call EXCEPT !.pc = "awaitValidate",
                                !.vlog = Append(@, [path |-> PathOf(f), value |-> value, result |-> result])]]
             /\ UNCHANGED <<cachedSha, shaCalls>>
     ELSE IF cachedSha = ""
     THEN /\ calls' = [calls EXCEPT ![c] = [call EXCEPT !.pc = "awaitSha"]]
          /\ shaCalls' = shaCalls + 1
          /\ UNCHANGED cachedSha
     ELSE /\ calls' = [calls EXCEPT ![c] =
                EvalWithCacheEnter([call EXCEPT !.sha = cachedSha, !.script = def.lua])]
          /\ UNCHANGED <<cachedSha, shaCalls>>

\* run / runRaw call execute(redis, input, validateReturn), which runs up to
\* its first await
execute(c, op, redis, input, cap) ==
  /\ NextToCall(c)
  /\ ExecuteContinue(c, [IdleCall EXCEPT !.op = op, !.redis = redis, !.input = input], cap)
  /\ UNCHANGED <<loadCache, promises, def, templateVars>>

\* a caller invokes script.run(redis, input) or script.runRaw(redis, input)
run(c, op, redis, input, cap) ==
  /\ Cardinality({d \in Calls : calls[d].op \in {"run", "runRaw"}}) < MaxRuns
  /\ execute(c, op, redis, input, cap)

\* a capability that deferred its answer completes it
DeferredSettle(c, kind) ==
  LET call == calls[c]
      n == Len(call.vlog)
  IN /\ call.pc = "awaitValidate"
     /\ call.vlog[n].result.tag = "pending"
     /\ calls' = [calls EXCEPT ![c].vlog[n].result =
                     CapResult(kind, FieldOrder(def)[n], call.vlog[n].value)]
     /\ UNCHANGED <<loadCache, promises, def, templateVars, cachedSha, shaCalls>>

ValidateResume_IgnoreIssues(c, cap) ==
  LET call == calls[c]
      n == Len(call.vlog)
      f == FieldOrder(def)[n]
      result == call.vlog[n].result
  IN /\ call.pc = "awaitValidate"
     /\ result.tag # "pending"
     /\ ExecuteContinue(c,
           IF f.kind = "keys" THEN [call EXCEPT !.keys = Append(@, result.value.v)]
                              ELSE [call EXCEPT !.args = Append(@, result.value.v)], cap)
     /\ UNCHANGED <<loadCache, promises, def, templateVars>>

ValidateResume_NoStringCheck(c, cap) ==
  LET call == calls[c]
      n == Len(call.vlog)
      f == FieldOrder(def)[n]
      result == call.vlog[n].result
  IN /\ call.pc = "awaitValidate"
     /\ result.tag # "pending"
     /\ IF result.tag = "fail"
        THEN /\ calls' = [calls EXCEPT ![c] =
                   Settle(call, Err(ScriptInputError(def.name, PathOf(f), result.issues)))]
             /\ UNCHANGED <<cachedSha, shaCalls>>
        ELSE ExecuteContinue(c,
               IF f.kind = "keys" THEN [call EXCEPT !.keys = Append(@, result.value.v)]
                                  ELSE [call EXCEPT !.args = Append(@, result.value.v)], cap)
     /\ UNCHANGED <<loadCache, promises, def, templateVars>>

ValidateResume_NoAwait(c, cap) ==
  LET call == calls[c]
      n == Len(call.vlog)
      f == FieldOrder(def)[n]
      result == call.vlog[n].result
  IN /\ call.pc = "awaitValidate"
     /\ IF result.tag = "fail"
        THEN /\ calls' = [calls EXCEPT ![c] =
                   Settle(call, Err(ScriptInputError(def.name, PathOf(f), result.issues)))]
             /\ UNCHANGED <<cachedSha, shaCalls>>
        ELSE IF result.value.type # "string"
        THEN /\ calls' = [calls EXCEPT ![c] = Settle(call, Err(TypeErrorFor(f)))]
             /\ UNCHANGED <<cachedSha, shaCalls>>
        ELSE ExecuteContinue(c,
               IF f.kind = "keys" THEN [call EXCEPT !.keys = Append(@, result.value.v)]
                                  ELSE [call EXCEPT !.args = Append(@, result.value.v)], cap)
     /\ UNCHANGED <<loadCache, promises, def, templateVars>>

\* validateAndCollect resumes after `await parseStandard(...)` of a field:
\* issues raise ScriptInputError, an output that is not a string raises
\* TypeError, a string is pushed and the loop goes on
ValidateResume(c, cap) ==
  LET call == calls[c]
      n == Len(call.vlog)
      f == FieldOrder(def)[n]
      result == call.vlog[n].result
  IN /\ call.pc = "awaitValidate"
     /\ result.tag # "pending"
     /\ IF result.tag = "fail"
        THEN /\ calls' = [calls EXCEPT ![c] =
                   Settle(call, Err(ScriptInputError(def.name, PathOf(f), result.issues)))]
             /\ UNCHANGED <<cachedSha, shaCalls>>
        ELSE IF result.value.type # "string"
        THEN /\ calls' = [calls EXCEPT ![c] = Settle(call, Err(TypeErrorFor(f)))]
             /\ UNCHANGED <<cachedSha, shaCalls>>
        ELSE ExecuteContinue(c,
               IF f.kind = "keys" THEN [call EXCEPT !.keys = Append(@, result.value.v)]
                                  ELSE [call EXCEPT !.args = Append(@, result.value.v)], cap)
     /\ UNCHANGED <<loadCache, promises, def, templateVars>>

\* getSha resumes after `await sha1Hex(lua)`: the hash is memoized and
\* execute enters evalWithCache with it
ShaResume(c) ==
  /\ calls[c].pc = "awaitSha"
  /\ cachedSha' = sha1Hex(def.lua)
  /\ calls' = [calls EXCEPT ![c] =
        EvalWithCacheEnter([calls[c] EXCEPT !.sha = sha1Hex(def.lua), !.script = def.lua])]
  /\ UNCHANGED <<loadCache, promises, def, templateVars, shaCalls>>

\* run resumes after `parseStandard(returns, raw, ...)`
ReturnResume(c, kind) ==
  LET call == calls[c]
      raw == call.retlog[Len(call.retlog)]
  IN /\ call.pc = "awaitReturn"
     /\ calls' = [calls EXCEPT ![c].pc = "done",
                     ![c].outcome = IF kind = "issues"
                                    THEN Err(ScriptReturnError(def.name, Issue_return, raw))
                                    ELSE Ok(Transformed(raw))]
     /\ UNCHANGED <<loadCache, promises, def, templateVars, cachedSha, shaCalls>>

(***************************************************************************)
(* Specification of the cache and the engine under direct callers          *)
(***************************************************************************)
Next ==
  \/ \E c \in Calls, redis \in Conns, sha \in Hashes : ensureLoaded(c, redis, sha)
  \/ \E c \in Calls, redis \in Conns, sha \in Hashes, ka \in ArgChoices : evalWithCache(c, redis, sha, ka)
  \/ \E p \in 1..Len(promises), ans \in ScriptLoadAnswers : ScriptLoadRespond(p, ans)
  \/ \E c \in Calls : EnsureLoadedResume(c)
  \/ \E c \in Calls, ans \in FirstAnswers : EvalWithCacheAfterFirst(c, ans)
  \/ \E c \in Calls, ans \in RetryAnswers : EvalWithCacheAfterSecond(c, ans)

Spec == Init /\ [][Next]_vars

(***************************************************************************)
(* Properties of the load cache and the engine                             *)
(***************************************************************************)
Promises == 1..Len(promises)
SameEntry(p, q) == promises[p].redis = promises[q].redis /\ promises[p].sha = promises[q].sha
Entries(redis) == IF CacheKey(redis) \in DOMAIN loadCache THEN loadCache[CacheKey(redis)] ELSE << >>
InCache(p) == MapGet(Entries(promises[p].redis), promises[p].sha) = p
FirstWasNoScript(c) ==
  /\ calls[c].r1.tag = "err"
  /\ calls[c].r1.error \in {ErrNoScript, ErrNoScriptLower, JsString(Str_NOSCRIPT)}

\* C1: single-flight.  For each (connection, hash) at most one scriptLoad is
\* in flight, and a scriptLoad is issued for a (connection, hash) only when
\* every earlier upload for it has failed: never while one is in flight or
\* after one has succeeded.
C1_SingleFlight ==
  /\ \A redis \in Conns, sha \in Hashes :
        Cardinality({p \in Promises : /\ promises[p].redis = redis
                                      /\ promises[p].sha = sha
                                      /\ promises[p].state = "pending"}) <= 1
  /\ \A p, q \in Promises : (p < q /\ SameEntry(p, q)) => promises[p].state = "rejected"

C1_Witness ==
  \E c, d \in Calls :
     /\ c # d
     /\ calls[c].pc = "awaitLoad" /\ calls[d].pc = "awaitLoad"
     /\ calls[c].loadP = calls[d].loadP
     /\ promises[calls[c].loadP].state = "pending"

\* C2 as stated: every evalWithCache call whose first evalsha failed with
\* NOSCRIPT ends having issued exactly 2 evalsha and exactly 1 scriptLoad,
\* with the second evalsha's outcome as its result.
C2_Original ==
  \A c \in Calls :
     (calls[c].op = "evalWithCache" /\ calls[c].pc = "done" /\ FirstWasNoScript(c))
       => /\ nEvalsha(c) = 2
          /\ nScriptLoad(c) = 1
          /\ calls[c].outcome = calls[c].r2

\* C2 amended: an evalWithCache call whose first evalsha failed with
\* NOSCRIPT issues one scriptLoad when the connection's cache held no entry
\* for the hash and none when it joined an existing entry; when that load
\* succeeds it issues exactly 2 evalsha and its result is the second
\* evalsha's outcome; when the load fails it issues no second evalsha and
\* fails with the upload's error.
C2_Amended ==
  \A c \in Calls :
     (calls[c].op = "evalWithCache" /\ calls[c].pc = "done" /\ FirstWasNoScript(c))
       => /\ calls[c].loadP \in Promises
          /\ nScriptLoad(c) = IF calls[c].initiator THEN 1 ELSE 0
          /\ IF promises[calls[c].loadP].state = "fulfilled"
             THEN /\ nEvalsha(c) = 2
                  /\ calls[c].r2 \in EvalshaAnswers
                  /\ calls[c].outcome = calls[c].r2
             ELSE /\ nEvalsha(c) = 1
                  /\ promises[calls[c].loadP].state = "rejected"
                  /\ calls[c].outcome = promises[calls[c].loadP].result

C2_Witness ==
  \E c \in Calls :
     /\ calls[c].op = "evalWithCache" /\ calls[c].pc = "done" /\ FirstWasNoScript(c)
     /\ calls[c].initiator
     /\ nEvalsha(c) = 2 /\ nScriptLoad(c) = 1
     /\ calls[c].outcome = Ok("v2")

\* C3: no evalWithCache call issues more than one scriptLoad or more than
\* two evalsha, whatever the store answers and whatever runs concurrently.
C3_AtMostOneLoadTwoEvals ==
  \A c \in Calls :
     calls[c].op = "evalWithCache" => (nScriptLoad(c) <= 1 /\ nEvalsha(c) <= 2)

C3_Witness ==
  \E c \in Calls :
     /\ calls[c].op = "evalWithCache" /\ calls[c].pc = "done"
     /\ nScriptLoad(c) = 1 /\ nEvalsha(c) = 2
     /\ calls[c].r2.tag = "err" /\ isNoScriptError(calls[c].r2.error)

\* C4: the step in which an evalWithCache call receives a first-evalsha
\* failure that is not NOSCRIPT ends the call with that same error, having
\* issued that one evalsha and nothing else, and leaves the load cache and
\* the load promises as they were.
C4_NonNoScriptPropagates ==
  [][\A c \in Calls :
       (/\ calls[c].pc = "awaitEvalsha1"
        /\ calls'[c].r1.tag = "err"
        /\ ~isNoScriptError(calls'[c].r1.error))
         => /\ calls'[c].pc = "done"
            /\ calls'[c].outcome = calls'[c].r1
            /\ calls'[c].io = <<IoEvalsha(calls[c].sha, calls[c].keys, calls[c].args)>>
            /\ calls'[c].loadP = 0
            /\ loadCache' = loadCache
            /\ promises' = promises]_vars

C4_Witness ==
  \E c \in Calls :
     /\ calls[c].op = "evalWithCache" /\ calls[c].pc = "done"
     /\ calls[c].outcome = Err(ErrTimeout)
     /\ nEvalsha(c) = 1 /\ nScriptLoad(c) = 0
     /\ \E p \in Promises : promises[p].redis = calls[c].redis /\ promises[p].sha = calls[c].sha

\* C6: an upload that has succeeded keeps its entry in its connection's
\* cache in every later state and is the last scriptLoad ever issued for
\* that hash on that connection.
C6_SuccessIsPermanent ==
  \A p \in Promises :
     promises[p].state = "fulfilled"
       => /\ InCache(p)
          /\ \A q \in Promises : (q > p) => ~SameEntry(p, q)

C6_Witness ==
  \E p \in Promises, c \in Calls :
     /\ promises[p].state = "fulfilled"
     /\ calls[c].loadP = p /\ ~calls[c].initiator
     /\ calls[c].op = "evalWithCache" /\ calls[c].pc = "done"

\* C8: the load cache is per connection.  Every entry of a connection's
\* cache, and every promise a call awaits, belongs to an upload made on
\* that call's own connection for that call's own hash; and a step changes
\* the entries of a connection only when it is a step of a call on that
\* connection.
C8_PerConnection ==
  /\ [](\A redis \in Conns : \A sha \in DOMAIN Entries(redis) :
           /\ promises[Entries(redis)[sha]].redis = redis
           /\ promises[Entries(redis)[sha]].sha = sha)
  /\ [](\A c \in Calls : calls[c].loadP # 0 =>
           /\ promises[calls[c].loadP].redis = calls[c].redis
           /\ promises[calls[c].loadP].sha = calls[c].sha)
  /\ [][\A redis \in Conns :
          (IF redis \in DOMAIN loadCache THEN loadCache[redis] ELSE << >>)'
             # (IF redis \in DOMAIN loadCache THEN loadCache[redis] ELSE << >>)
           => \E c \in Calls : calls'[c] # calls[c] /\ calls'[c].redis = redis]_vars

C8_Witness ==
  \E p, q \in Promises :
     /\ promises[p].sha = promises[q].sha
     /\ promises[p].redis # promises[q].redis
     /\ promises[p].state = "fulfilled"
     /\ q > p

(***************************************************************************)
(* Specification of callers that contend for one entry: ensureLoaded and   *)
(* evalWithCache callers on one connection and one hash.  The event loop   *)
(* runs every reaction of a settled promise, so a call whose load promise  *)
(* has settled does resume.                                                *)
(***************************************************************************)
NextEntry ==
  \/ \E c \in Calls, redis \in {"A"}, sha \in {"h1"} : ensureLoaded(c, redis, sha)
  \/ \E c \in Calls, redis \in {"A"}, sha \in {"h1"}, ka \in ArgChoices : evalWithCache(c, redis, sha, ka)
  \/ \E p \in 1..Len(promises), ans \in ScriptLoadAnswers : ScriptLoadRespond(p, ans)
  \/ \E c \in Calls : EnsureLoadedResume(c)
  \/ \E c \in Calls, ans \in EvalshaAnswers : EvalWithCacheAfterFirst(c, ans)
  \/ \E c \in Calls, ans \in EvalshaAnswers : EvalWithCacheAfterSecond(c, ans)

FairEntry == Init /\ [][NextEntry]_vars /\ \A c \in Calls : WF_vars(EnsureLoadedResume(c))

IsWaiter(c, p) == calls[c].loadP = p /\ calls[c].pc = "awaitLoad"
Rejected(p) == p <= Len(promises) /\ promises[p].state = "rejected"
Fulfilled(p) == p <= Len(promises) /\ promises[p].state = "fulfilled"

\* C5: when an upload fails its entry is removed from the connection's
\* cache; every caller waiting on that entry fails with the upload's error;
\* and a call that enters ensureLoaded for that hash on that connection
\* after the removal, while no newer entry exists, issues a fresh scriptLoad.
C5_FailureRemovesEntry ==
  /\ \A p \in 1..MaxCalls : Rejected(p) ~> (Rejected(p) /\ ~InCache(p))
  /\ [](\A p \in 1..MaxCalls : (Rejected(p) /\ promises[p].handled) => ~InCache(p))
  /\ \A c \in Calls : \A p \in 1..MaxCalls :
        (IsWaiter(c, p) /\ Rejected(p))
          ~> (calls[c].pc = "done" /\ Rejected(p) /\ calls[c].outcome = promises[p].result)
  /\ [](\A c \in Calls :
          (calls[c].op \in {"ensureLoaded", "evalWithCache"} /\ calls[c].pc = "done"
             /\ calls[c].loadP # 0 /\ Rejected(calls[c].loadP))
            => (calls[c].outcome = promises[calls[c].loadP].result /\ calls[c].outcome.tag = "err"))
  /\ [][\A c \in Calls :
          (/\ calls[c].pc # "awaitLoad" /\ calls'[c].pc = "awaitLoad"
           /\ MapGet(Entries(calls'[c].redis), calls'[c].sha) = 0
           /\ \E p \in Promises : /\ promises[p].redis = calls'[c].redis
                                  /\ promises[p].sha = calls'[c].sha
                                  /\ Rejected(p))
            => /\ calls'[c].initiator
               /\ calls'[c].loadP = Len(promises) + 1
               /\ promises' = Append(promises, promises'[Len(promises) + 1])
               /\ promises'[Len(promises) + 1].state = "pending"
               /\ promises'[Len(promises) + 1].redis = calls'[c].redis
               /\ promises'[Len(promises) + 1].sha = calls'[c].sha
               /\ calls'[c].io = Append(calls[c].io, IoScriptLoad(calls'[c].script))]_vars

C5_Witness ==
  \E p, q \in Promises, c, d \in Calls :
     /\ p < q /\ SameEntry(p, q)
     /\ Rejected(p) /\ ~InCache(p)
     /\ calls[c].loadP = p /\ calls[c].pc = "done" /\ calls[c].outcome = Err(ErrLoad)
     /\ calls[d].loadP = q /\ calls[d].initiator /\ calls[d].op = "ensureLoaded"

\* C7: no ensureLoaded caller completes before the upload it waits on has
\* completed, it completes successfully only when that upload succeeded,
\* and every caller waiting on an upload that has succeeded eventually
\* completes successfully.
C7_AllWaitersComplete ==
  /\ [](\A c \in Calls :
          (calls[c].op = "ensureLoaded" /\ calls[c].pc = "done")
            => /\ promises[calls[c].loadP].state # "pending"
               /\ (calls[c].outcome.tag = "ok") = (promises[calls[c].loadP].state = "fulfilled"))
  /\ \A c \in Calls : \A p \in 1..MaxCalls :
        (calls[c].op = "ensureLoaded" /\ IsWaiter(c, p) /\ Fulfilled(p))
          ~> (calls[c].pc = "done" /\ calls[c].outcome = Ok(""))

C7_Witness ==
  \E c, d \in Calls :
     /\ c # d
     /\ calls[c].op = "ensureLoaded" /\ calls[d].op = "ensureLoaded"
     /\ calls[c].loadP = calls[d].loadP
     /\ nScriptLoad(c) + nScriptLoad(d) = 1
     /\ calls[c].pc = "done" /\ calls[d].pc = "done"
     /\ calls[c].outcome = Ok("") /\ calls[d].outcome = Ok("")

(***************************************************************************)
(* Specification of run / runRaw on one script definition, next to direct  *)
(* ensureLoaded callers for the same script on the same connection         *)
(* (run is called with every field given or with none, runRaw with every  *)
(* field given)                                                            *)
(***************************************************************************)
InitRun ==
  /\ loadCache = << >>
  /\ promises = << >>
  /\ calls = [c \in Calls |-> IdleCall]
  /\ def \in Defs
  /\ cachedSha = ""
  /\ shaCalls = 0
  /\ TemplateIdle

NextRun ==
  \/ \E c \in Calls, op \in {"run", "runRaw"}, redis \in {"A"}, input \in InputsOf(def), cap \in CapChoices :
        /\ op = "runRaw" => input # NoInput
        /\ run(c, op, redis, input, cap)
  \/ \E c \in Calls, redis \in {"A"}, sha \in {sha1Hex(def.lua)} : ensureLoaded(c, redis, sha)
  \/ \E c \in Calls, kind \in AnswerKinds : DeferredSettle(c, kind)
  \/ \E c \in Calls, cap \in CapChoices : ValidateResume(c, cap)
  \/ \E c \in Calls : ShaResume(c)
  \/ \E c \in Calls, ans \in FirstAnswers : EvalWithCacheAfterFirst(c, ans)
  \/ \E p \in 1..Len(promises), ans \in ScriptLoadAnswers : ScriptLoadRespond(p, ans)
  \/ \E c \in Calls : EnsureLoadedResume(c)
  \/ \E c \in Calls, ans \in RetryAnswers : EvalWithCacheAfterSecond(c, ans)
  \/ \E c \in Calls, kind \in {"string", "issues"} : ReturnResume(c, kind)

SpecRun == InitRun /\ [][NextRun]_vars

(***************************************************************************)
(* Properties of run / runRaw                                              *)
(***************************************************************************)
IsRun(c) == calls[c].op \in {"run", "runRaw"}
NumFields == Len(def.keyNames) + Len(def.argNames)
Accepted(entry) == entry.result.tag = "ok" /\ entry.result.value.type = "string"

C10_NoTransportBeforeValidation ==
  /\ [](\A c \in Calls :
          IsRun(c) =>
            /\ (calls[c].io # << >> \/ calls[c].loadP # 0 \/ calls[c].pc = "awaitSha")
                 => /\ Len(calls[c].vlog) = NumFields
                    /\ \A i \in 1..NumFields : Accepted(calls[c].vlog[i])
            /\ (\E i \in 1..Len(calls[c].vlog) :
                   calls[c].vlog[i].result.tag = "fail")
                 => (calls[c].io = << >> /\ calls[c].loadP = 0 /\ nEval(c) = 0))
  /\ [][\A c \in Calls :
          (/\ calls'[c] # calls[c]
           /\ calls'[c].op \in {"run", "runRaw"}
           /\ calls'[c].pc \in {"awaitValidate", "done"}
           /\ Len(calls'[c].vlog) > 0
           /\ ~Accepted(calls'[c].vlog[Len(calls'[c].vlog)]))
            => (loadCache' = loadCache /\ promises' = promises /\ calls'[c].io = << >>)]_vars

C10_Witness ==
  \E c \in Calls :
     /\ IsRun(c) /\ calls[c].pc = "done"
     /\ calls[c].outcome.tag = "err"
     /\ calls[c].outcome.error.kind = "ScriptInputError"
     /\ calls[c].outcome.error.path = <<"args", "a1">>
     /\ calls[c].io = << >>
     /\ loadCache # << >> /\ loadCache["A"] # << >>

NonString(entry) == entry.result.tag = "ok" /\ entry.result.value.type # "string"

C12_NonStringOutput ==
  \A c \in Calls :
     \A i \in 1..Len(calls[c].vlog) :
        (IsRun(c) /\ NonString(calls[c].vlog[i])) =>
          /\ Len(calls[c].vlog) = i
          /\ calls[c].io = << >> /\ calls[c].loadP = 0 /\ nEval(c) = 0
          /\ calls[c].pc \in {"awaitValidate", "done"}
          /\ calls[c].pc = "done" =>
                /\ calls[c].outcome.tag = "err"
                /\ calls[c].outcome.error.kind = "TypeError"
                /\ calls[c].outcome.error.kind \notin {"ScriptInputError", "ScriptReturnError"}
                /\ calls[c].outcome.error.path = calls[c].vlog[i].path

C12_Witness ==
  \E c \in Calls :
     /\ IsRun(c) /\ calls[c].pc = "done"
     /\ NumFields = 3
     /\ Len(calls[c].vlog) = 1
     /\ NonString(calls[c].vlog[1])
     /\ calls[c].outcome.error.kind = "TypeError"
     /\ calls[c].outcome.error.path = <<"keys", "k1">>
     /\ calls[c].io = << >>

\* the answer of the store that ended the execution of call c: the second
\* evalsha's when there was one, the first's otherwise
LastAnswer(c) == IF calls[c].r2.tag # "none" THEN calls[c].r2 ELSE calls[c].r1

C14_OutputPhase ==
  \A c \in Calls :
     IsRun(c) =>
       /\ Len(calls[c].retlog) <= 1
       /\ calls[c].retlog # << >> =>
             /\ calls[c].op = "run" /\ def.returns
             /\ LastAnswer(c).tag = "ok"
             /\ calls[c].retlog = <<LastAnswer(c).value>>
             /\ \A i \in 1..Len(calls[c].vlog) : Accepted(calls[c].vlog[i])
       /\ (calls[c].pc = "done" /\ calls[c].outcome.tag = "ok") =>
             /\ LastAnswer(c).tag = "ok"
             /\ calls[c].outcome.value =
                   IF calls[c].op = "run" /\ def.returns
                   THEN Transformed(LastAnswer(c).value)
                   ELSE LastAnswer(c).value
             /\ (calls[c].op = "run" /\ def.returns) => calls[c].retlog # << >>

C14_Witness ==
  /\ def.returns
  /\ \E c \in Calls :
        /\ calls[c].op = "runRaw" /\ calls[c].pc = "done"
        /\ calls[c].outcome = Ok("v1")
        /\ calls[c].retlog = << >>

(***************************************************************************)
(* Definition time: Object.keys, the lua tag, createTokenProxy, compileLua,*)
(* resolveLua and defineScript                                             *)
(***************************************************************************)
\* longest keys / args declaration, most interpolations in a template, and
\* number of direct compileLua calls in a row
MaxNames == 2
MaxTokens == 2
MaxCompiles == 3

\* property names a caller declares and references (JavaScript strings)
NamePool == {<<"k">>, <<"2">>, <<"1", "0">>}

RECURSIVE SeqsUpTo(_, _)
SeqsUpTo(S, n) ==
  IF n = 0 THEN {<< >>}
  ELSE LET shorter == SeqsUpTo(S, n - 1)
       IN shorter \cup {Append(q, x) : q \in {r \in shorter : Len(r) = n - 1}, x \in S}

\* the property names of a keys / args object literal, in the order the
\* caller wrote them: distinct names, at most MaxNames of them
NameLists == {q \in SeqsUpTo(NamePool, MaxNames) : \A i, j \in 1..Len(q) : q[i] = q[j] => i = j}

\* decimal digits: String(n) and the value of a canonical numeric string
DigitChars == <<"0", "1", "2", "3", "4", "5", "6", "7", "8", "9">>

RECURSIVE NumberToString(_)
NumberToString(n) ==
  IF n < 10 THEN <<DigitChars[n + 1]>>
  ELSE NumberToString(n \div 10) \o <<DigitChars[(n % 10) + 1]>>

IsDigit(ch) == \E d \in 1..10 : DigitChars[d] = ch

RECURSIVE ToNumber(_)
ToNumber(s) ==
  IF s = << >> THEN 0
  ELSE 10 * ToNumber(SubSeq(s, 1, Len(s) - 1))
         + ((CHOOSE d \in 1..10 : DigitChars[d] = s[Len(s)]) - 1)

\* a property name that is an array index: a canonical numeric string
\* (names of ten digits and more are outside NamePool)
IsArrayIndex(s) ==
  /\ Len(s) > 0 /\ Len(s) < 10
  /\ \A i \in 1..Len(s) : IsDigit(s[i])
  /\ Len(s) > 1 => s[1] # "0"

\* Object.keys of an object literal whose properties were written in the
\* order `written`: own property keys that are array indices come first, in
\* ascending numeric order, then the other string keys in creation order
ObjectKeys(written) ==
  SortSeq(SelectSeq(written, IsArrayIndex), LAMBDA a, b : ToNumber(a) < ToNumber(b))
    \o SelectSeq(written, LAMBDA n : ~IsArrayIndex(n))

\* String literals of lua-template.ts and define-script.ts (the grave accent
\* cannot be written in a TLA+ string, so it is named)
Chr_Backtick == "grave"
Str_KEYS == <<"K", "E", "Y", "S", "[">>
Str_ARGV == <<"A", "R", "G", "V", "[">>
Str_Close == <<"]">>
Str_Unknown == <<"[", "u", "p", "s", "t", "a", "s", "h", "-", "l", "u", "a", "]", " ", "U", "n", "k", "n", "o", "w", "n", " ">>
Str_InTemplate == <<" ", "i", "n", " ", "l", "u", "a", " ", "t", "e", "m", "p", "l", "a", "t", "e", ".", " ", "A", "v", "a", "i", "l", "a", "b", "l", "e", " ">>
Str_Quote == <<"\"">>
Str_s == <<"s">>
Str_Colon == <<":", " ">>
Str_Comma == <<",", " ">>
Str_None == <<"(", "n", "o", "n", "e", ")">>
Str_MustReturn == <<"[", "u", "p", "s", "t", "a", "s", "h", "-", "l", "u", "a", "]", " ", "l", "u", "a", " ", "f", "u", "n", "c", "t", "i", "o", "n", " ", "m", "u", "s", "t", " ", "r", "e", "t", "u", "r", "n", " ", "a", " ", "l", "u", "a", Chr_Backtick, ".", ".", ".", Chr_Backtick, " ", "t", "e", "m", "p", "l", "a", "t", "e", ".", " ", "G", "o", "t", " ">>
Str_DidYouForget == <<".", " ", "D", "i", "d", " ", "y", "o", "u", " ", "f", "o", "r", "g", "e", "t", " ", "t", "o", " ", "u", "s", "e", " ", "t", "h", "e", " ", "l", "u", "a", " ", "t", "a", "g", "g", "e", "d", " ", "t", "e", "m", "p", "l", "a", "t", "e", "?">>
Str_OnlyAccepts == <<"[", "u", "p", "s", "t", "a", "s", "h", "-", "l", "u", "a", "]", " ", "l", "u", "a", " ", "t", "e", "m", "p", "l", "a", "t", "e", " ", "o", "n", "l", "y", " ", "a", "c", "c", "e", "p", "t", "s", " ", "K", "E", "Y", "S", ".", "*", " ", "o", "r", " ", "A", "R", "G", "V", ".", "*", " ", "i", "n", "t", "e", "r", "p", "o", "l", "a", "t", "i", "o", "n", "s", ".", " ", "G", "o", "t", " ">>
Str_AtPosition == <<" ", "a", "t", " ", "p", "o", "s", "i", "t", "i", "o", "n", " ">>
Str_Dot == <<".">>
Str_key == <<"k", "e", "y">>
Str_arg == <<"a", "r", "g">>

\* a literal source text
Str_Source == <<"r", "e", "t", "u", "r", "n", " ", "1">>

\* the result of `typeof` as text
TypeofText(typeof) ==
  CASE typeof = "string" -> <<"s", "t", "r", "i", "n", "g">>
    [] typeof = "undefined" -> <<"u", "n", "d", "e", "f", "i", "n", "e", "d">>
    [] typeof = "object" -> <<"o", "b", "j", "e", "c", "t">>
    [] OTHER -> <<"f", "u", "n", "c", "t", "i", "o", "n">>

\* token.kind ("key" | "arg") as text
KindText(kind) == IF kind = "key" THEN Str_key ELSE Str_arg

JsTypeError(msg) == [kind |-> "TypeError", message |-> msg]

\* JavaScript values a builder may interpolate or return; sym is the value
\* of the [LUA_TOKEN] property of the object, absent when it has none
JsPlain(typeof) ==
  [typeof |-> typeof, isNull |-> FALSE, sym |-> "absent", kind |-> "", name |-> << >>,
   strings |-> << >>, tokens |-> << >>]
JsNull == [JsPlain("object") EXCEPT !.isNull = TRUE]
LuaToken(kind, name) == [JsPlain("object") EXCEPT !.sym = "true", !.kind = kind, !.name = name]
CompiledLua(strings, tokens) ==
  [JsPlain("object") EXCEPT !.sym = "compiled", !.strings = strings, !.tokens = tokens]

isLuaToken(value) ==
  /\ value.typeof = "object"
  /\ ~value.isNull
  /\ value.sym # "absent"
  /\ value.sym = "true"

isCompiledLua_AnyTagged(value) ==
  /\ value.typeof = "object"
  /\ ~value.isNull
  /\ value.sym # "absent"

isCompiledLua(value) ==
  /\ value.typeof = "object"
  /\ ~value.isNull
  /\ value.sym # "absent"
  /\ value.sym = "compiled"

createTokenProxy_PlainObject(kind) == [prop \in NamePool |-> JsPlain("undefined")]

\* createTokenProxy(kind): reading the property `prop` of the proxy returns
\* a token of that kind and name, whatever the name (builders of this model
\* read string-named properties only)
createTokenProxy(kind) == [prop \in NamePool |-> LuaToken(kind, prop)]

\* the lua tag: every interpolated value has to be a LuaToken, the first
\* that is not raises TypeError; otherwise the CompiledLua object
lua(strings, tokens) ==
  IF \E i \in 1..Len(tokens) : ~isLuaToken(tokens[i])
  THEN LET i == CHOOSE j \in 1..Len(tokens) :
                  /\ ~isLuaToken(tokens[j])
                  /\ \A h \in 1..(j - 1) : isLuaToken(tokens[h])
       IN Err(JsTypeError(Str_OnlyAccepts \o TypeofText(tokens[i].typeof)
                            \o Str_AtPosition \o NumberToString(i) \o Str_Dot))
  ELSE Ok(CompiledLua(strings, tokens))

\* the Map a compileLua call fills: `new Map()` inside the call, whatever
\* the previous call left behind
NewMap_Hoisted(previous) == previous

NewMap(previous) == << >>

\* for (let i = 0; i < names.length; i++) map.set(names[i], i + 1), from
\* the i-th name of the list on
RECURSIVE FillIndexMap_Length(_, _, _)
FillIndexMap_Length(map, names, i) ==
  IF i > Len(names) THEN map
  ELSE FillIndexMap_Length(MapSet(map, names[i], Len(names)), names, i + 1)

RECURSIVE FillIndexMap(_, _, _)
FillIndexMap(map, names, i) ==
  IF i > Len(names) THEN map
  ELSE FillIndexMap(MapSet(map, names[i], i), names, i + 1)

\* keyIndexMap.get(token.name) for a key token, argIndexMap.get(token.name)
\* for any other (0 stands for undefined)
LookupIndex_EitherMap(token, kmap, amap) ==
  IF MapGet(kmap, token.name) # 0 THEN MapGet(kmap, token.name) ELSE MapGet(amap, token.name)

LookupIndex_ArgMapFirst(token, kmap, amap) ==
  IF MapGet(amap, token.name) # 0 THEN MapGet(amap, token.name) ELSE MapGet(kmap, token.name)

LookupIndex(token, kmap, amap) ==
  IF token.kind = "key" THEN MapGet(kmap, token.name) ELSE MapGet(amap, token.name)

\* `KEYS[${index}]` / `ARGV[${index}]`
Replacement_ZeroBased(kind, index) ==
  (IF kind = "key" THEN Str_KEYS ELSE Str_ARGV) \o NumberToString(index - 1) \o Str_Close

Replacement(kind, index) ==
  (IF kind = "key" THEN Str_KEYS ELSE Str_ARGV) \o NumberToString(index) \o Str_Close

\* strings[i] ?? "" (i counts from 0)
StringAt(strings, i) == IF i + 1 \in DOMAIN strings THEN strings[i + 1] ELSE << >>

\* names.join(", ")
RECURSIVE Join(_)
Join(names) ==
  IF Len(names) = 0 THEN << >>
  ELSE IF Len(names) = 1 THEN names[1]
  ELSE names[1] \o Str_Comma \o Join(Tail(names))

\* the Error of compileLua for a token whose name is not in its Map
UnknownError(kind, name, names) ==
  JsError(Str_Unknown \o KindText(kind) \o <<" ">> \o Str_Quote \o name \o Str_Quote
            \o Str_InTemplate \o KindText(kind) \o Str_s \o Str_Colon
            \o (IF Len(names) > 0 THEN Join(names) ELSE Str_None))

\* compileLua(compiled, keyNames, argNames): the two Maps it builds, the
\* references it emitted and its result (the compiled text or the Error)
compileLua(compiled, keyNames, argNames) ==
  LET kmap == FillIndexMap(NewMap(keyIndexMap), keyNames, 1)
      amap == FillIndexMap(NewMap(argIndexMap), argNames, 1)
      RECURSIVE Loop(_, _, _)
      Loop(i, result, refs) ==
        IF i >= Len(compiled.tokens) THEN [result |-> Ok(result), refs |-> refs]
        ELSE LET token == compiled.tokens[i + 1]
                 index == LookupIndex(token, kmap, amap)
             IN IF index = 0
                THEN [result |-> Err(UnknownError(IF token.kind = "key" THEN "key" ELSE "arg", token.name,
                                                  IF token.kind = "key" THEN keyNames ELSE argNames)),
                      refs |-> refs]
                ELSE Loop(i + 1,
                          result \o Replacement(IF token.kind = "key" THEN "key" ELSE "arg", index)
                                 \o StringAt(compiled.strings, i + 1),
                          Append(refs, [kind |-> token.kind, name |-> token.name, index |-> index]))
      out == Loop(0, StringAt(compiled.strings, 0), << >>)
  IN [compiled |-> compiled, keyNames |-> keyNames, argNames |-> argNames,
      keyIndexMap |-> kmap, argIndexMap |-> amap, refs |-> out.refs, result |-> out.result]

\* what a caller may interpolate into a lua template: KEYS.<name> or
\* ARGV.<name>, or else a plain string
Interpolations == [acc : {"KEYS", "ARGV"}, name : NamePool]
RawInterpolation == [acc |-> "raw", name |-> << >>]

\* the literal segments the caller writes around n interpolations: either
\* n + 1 distinct texts or n + 1 empty strings
Styles == {"text", "empty"}
Segments(style, n) ==
  [i \in 1..(n + 1) |-> IF style = "text" THEN Str_s \o NumberToString(i - 1) \o <<" ">> ELSE << >>]

\* the `lua` member of a declaration: literal source text, a builder that
\* returns a lua template, or a builder that returns something else
LuaInput(form, style, refs, what) == [form |-> form, style |-> style, refs |-> refs, what |-> what]
LuaInputs ==
  {LuaInput("text", "text", << >>, "")}
    \cup {LuaInput("template", style, refs, "") :
            style \in Styles, refs \in SeqsUpTo(Interpolations, MaxTokens)}
    \cup {LuaInput("template", "text", refs, "") :
            refs \in {<<RawInterpolation>>,
                       <<[acc |-> "KEYS", name |-> <<"k">>], RawInterpolation>>}}
    \cup {LuaInput("returns", "text", << >>, what) :
            what \in {"string", "undefined", "null", "token", "plain"}}

\* the objects a caller may hand to defineScript
Decls == [name : {"d"}, keys : NameLists, args : NameLists, lua : LuaInputs, returns : {FALSE}]

\* the builder luaInput({KEYS, ARGV}) runs: it reads the accessors it
\* interpolates and returns what the lua tag returns, or another value
CallBuilder(luaInput, KEYS, ARGV) ==
  IF luaInput.form = "template"
  THEN lua(Segments(luaInput.style, Len(luaInput.refs)),
           [i \in 1..Len(luaInput.refs) |->
              LET r == luaInput.refs[i]
              IN CASE r.acc = "KEYS" -> KEYS[r.name]
                   [] r.acc = "ARGV" -> ARGV[r.name]
                   [] OTHER -> JsPlain("string")])
  ELSE Ok(CASE luaInput.what = "string" -> JsPlain("string")
            [] luaInput.what = "undefined" -> JsPlain("undefined")
            [] luaInput.what = "null" -> JsNull
            [] luaInput.what = "token" -> KEYS[<<"k">>]
            [] OTHER -> JsPlain("object"))

resolveLua_Uncompiled(luaInput, keyNames, argNames) ==
  IF luaInput.form = "text"
  THEN [result |-> Ok(Str_Source), builderCalls |-> 0, compiles |-> << >>]
  ELSE LET compiled == CallBuilder(luaInput, createTokenProxy("key"), createTokenProxy("arg"))
       IN IF compiled.tag = "err"
          THEN [result |-> compiled, builderCalls |-> 1, compiles |-> << >>]
          ELSE [result |-> Ok(StringAt(compiled.value.strings, 0)),
                builderCalls |-> 1, compiles |-> << >>]

\* resolveLua(luaInput, keyNames, argNames): its result, the number of
\* builder calls it made and the compileLua calls it made
resolveLua(luaInput, keyNames, argNames) ==
  IF luaInput.form = "text"
  THEN [result |-> Ok(Str_Source), builderCalls |-> 0, compiles |-> << >>]
  ELSE LET KEYS == createTokenProxy("key")
           ARGV == createTokenProxy("arg")
           compiled == CallBuilder(luaInput, KEYS, ARGV)
       IN IF compiled.tag = "err"
          THEN [result |-> compiled, builderCalls |-> 1, compiles |-> << >>]
          ELSE IF ~isCompiledLua(compiled.value)
          THEN [result |-> Err(JsTypeError(Str_MustReturn \o TypeofText(compiled.value.typeof)
                                             \o Str_DidYouForget)),
                builderCalls |-> 1, compiles |-> << >>]
          ELSE LET call == compileLua(compiled.value, keyNames, argNames)
               IN [result |-> call.result, builderCalls |-> 1, compiles |-> <<call>>]

\* the caller hands its declaration to defineScript: Object.keys of the two
\* schema records, resolveLua, and the Script object (def) when resolveLua
\* did not throw
defineScript ==
  /\ decl # NoDecl
  /\ defineLog = << >>
  /\ LET keySchemas == decl.keys
         argSchemas == decl.args
         keyNames == ObjectKeys(keySchemas)
         argNames == ObjectKeys(argSchemas)
     IN \E resolved \in {resolveLua(decl.lua, keyNames, argNames)} :
        /\ defineLog' = Append(defineLog,
              [decl |-> decl, builderCalls |-> resolved.builderCalls,
               compileCalls |-> Len(resolved.compiles),
               outcome |-> IF resolved.result.tag = "ok"
                           THEN Ok(Definition(decl.name, resolved.result.value,
                                              keyNames, argNames, decl.returns))
                           ELSE resolved.result])
        /\ compileLog' = compileLog \o resolved.compiles
        /\ IF resolved.compiles # << >>
           THEN /\ keyIndexMap' = resolved.compiles[1].keyIndexMap
                /\ argIndexMap' = resolved.compiles[1].argIndexMap
           ELSE UNCHANGED <<keyIndexMap, argIndexMap>>
        /\ def' = IF resolved.result.tag = "ok"
                  THEN Definition(decl.name, resolved.result.value, keyNames, argNames, decl.returns)
                  ELSE def
  /\ UNCHANGED <<decl, loadCache, promises, calls, cachedSha, shaCalls>>

\* a direct call compileLua(compiled, keyNames, argNames)
CompileLuaCall(compiled, keyNames, argNames) ==
  /\ Len(compileLog) < MaxCompiles
  /\ \E call \in {compileLua(compiled, keyNames, argNames)} :
        /\ compileLog' = Append(compileLog, call)
        /\ keyIndexMap' = call.keyIndexMap
        /\ argIndexMap' = call.argIndexMap
  /\ UNCHANGED <<decl, defineLog, loadCache, promises, calls, def, cachedSha, shaCalls>>

(***************************************************************************)
(* Specification of definition time: one declaration, handed to            *)
(* defineScript                                                            *)
(***************************************************************************)
InitDefine ==
  /\ loadCache = << >>
  /\ promises = << >>
  /\ calls = [c \in Calls |-> IdleCall]
  /\ def = NoDef
  /\ cachedSha = ""
  /\ shaCalls = 0
  /\ decl \in Decls
  /\ defineLog = << >>
  /\ compileLog = << >>
  /\ keyIndexMap = << >>
  /\ argIndexMap = << >>

NextDefine == defineScript

SpecDefine == InitDefine /\ [][NextDefine]_vars

(***************************************************************************)
(* Specification of compileLua under direct callers                        *)
(***************************************************************************)
\* the templates and name lists the direct callers pass
CompileTemplates ==
  {CompiledLua(Segments("text", Len(tokens)), tokens) :
     tokens \in {<< >>, <<LuaToken("key", <<"k">>)>>, <<LuaToken("arg", <<"k">>)>>}}
CompileNames == {<< >>, <<<<"k">>>>}

NextCompile ==
  \E compiled \in CompileTemplates, keyNames \in CompileNames, argNames \in CompileNames :
     CompileLuaCall(compiled, keyNames, argNames)

SpecCompile == Init /\ [][NextCompile]_vars

(***************************************************************************)
(* Properties of definition time                                           *)
(***************************************************************************)
Range(q) == {q[i] : i \in 1..Len(q)}
PositionIn(names, name) == CHOOSE i \in 1..Len(names) : names[i] = name
NamesOf(kind, call) == IF kind = "key" THEN call.keyNames ELSE call.argNames
AllDeclared(call) ==
  \A i \in 1..Len(call.compiled.tokens) :
     call.compiled.tokens[i].name \in Range(NamesOf(call.compiled.tokens[i].kind, call))

\* s0 + ref(r1) + s1 + ... + ref(rn) + sn for the first n references
RECURSIVE TextUpTo(_, _)
TextUpTo(call, n) ==
  IF n = 0 THEN call.compiled.strings[1]
  ELSE LET token == call.compiled.tokens[n]
       IN TextUpTo(call, n - 1)
            \o (IF token.kind = "key" THEN <<"K", "E", "Y", "S">> ELSE <<"A", "R", "G", "V">>)
            \o <<"[">> \o NumberToString(PositionIn(NamesOf(token.kind, call), token.name)) \o <<"]">>
            \o call.compiled.strings[n + 1]

\* C15: for every compileLua call whose references all name declared names,
\* the result is the text s0 + ref(r1) + s1 + ... + ref(rN) + sN, ref being
\* KEYS[i] for a key reference and ARGV[i] for an arg reference with i the
\* 1-based position of the name in the list of its kind; the Script object
\* defineScript returns holds exactly that text as its source.
C15_CompiledText ==
  \A n \in 1..Len(compileLog) :
     AllDeclared(compileLog[n]) =>
       /\ compileLog[n].result = Ok(TextUpTo(compileLog[n], Len(compileLog[n].compiled.tokens)))
       /\ defineLog # << >> =>
            /\ defineLog[1].outcome.tag = "ok"
            /\ defineLog[1].outcome.value.lua = compileLog[n].result.value

C15_Witness ==
  \E n \in 1..Len(compileLog) :
     /\ Len(compileLog[n].compiled.tokens) = 2
     /\ compileLog[n].result.tag = "ok"
     /\ compileLog[n].compiled.strings[1] # << >>
     /\ compileLog[n].compiled.tokens[1].kind = "arg"
     /\ compileLog[n].compiled.tokens[2].kind = "key"
     /\ compileLog[n].refs[2].index = 2
     /\ defineLog # << >> /\ defineLog[1].outcome.tag = "ok"

IsIndexBijection(map, names) ==
  /\ DOMAIN map = Range(names)
  /\ \A i \in 1..Len(names) : map[names[i]] = i
  /\ \A a, b \in DOMAIN map : map[a] = map[b] => a = b
  /\ {map[a] : a \in DOMAIN map} = 1..Len(names)

C17_IndexBijection ==
  \A n \in 1..Len(compileLog) :
     LET call == compileLog[n]
     IN /\ IsIndexBijection(call.keyIndexMap, call.keyNames)
        /\ IsIndexBijection(call.argIndexMap, call.argNames)
        /\ \A i \in 1..Len(call.refs) :
             /\ call.refs[i].name = call.compiled.tokens[i].name
             /\ call.refs[i].index = PositionIn(NamesOf(call.refs[i].kind, call), call.refs[i].name)
             /\ \A j \in 1..Len(call.refs) :
                  (call.refs[j].kind = call.refs[i].kind /\ call.refs[j].name = call.refs[i].name)
                    => call.refs[j].index = call.refs[i].index

C17_Witness ==
  \E n \in 1..Len(compileLog) :
     /\ defineLog # << >>
     /\ Len(compileLog[n].keyNames) = 2
     /\ Len(compileLog[n].refs) = 2
     /\ compileLog[n].refs[1] = compileLog[n].refs[2]
     /\ compileLog[n].refs[1].kind = "key"
     /\ compileLog[n].refs[1].index = 2

\* the kind of token an interpolation of the declaration asks for, and
\* whether the declaration declares its name under that kind
RefKind(r) == IF r.acc = "KEYS" THEN "key" ELSE "arg"
DeclaredIn(d, r) == r.name \in Range(IF r.acc = "KEYS" THEN d.keys ELSE d.args)
IsTemplate(d) ==
  /\ d.lua.form = "template"
  /\ \A i \in 1..Len(d.lua.refs) : d.lua.refs[i].acc # "raw"
NoTransport ==
  /\ loadCache = << >> /\ promises = << >>
  /\ \A c \in Calls : calls[c] = IdleCall

\* C18: when a template built from KEYS / ARGV interpolations refers to a
\* name that is not declared under the kind of the reference (even if it
\* is declared under the other kind), defineScript fails with the Error of
\* compileLua whose message says Unknown, the kind and the quoted name of
\* the first such reference in template order; no Script object is
\* returned and nothing was sent to a store.
C18_UnknownReference ==
  \A n \in 1..Len(defineLog) :
     LET d == defineLog[n].decl
         refs == d.lua.refs
     IN \A i \in 1..Len(refs) :
          (/\ IsTemplate(d)
           /\ ~DeclaredIn(d, refs[i])
           /\ \A j \in 1..(i - 1) : DeclaredIn(d, refs[j]))
            => /\ defineLog[n].outcome.tag = "err"
               /\ defineLog[n].outcome.error.kind = "Error"
               /\ includes(defineLog[n].outcome.error.message,
                           <<"U", "n", "k", "n", "o", "w", "n", " ">>
                             \o (IF RefKind(refs[i]) = "key" THEN <<"k", "e", "y">> ELSE <<"a", "r", "g">>)
                             \o <<" ", "\"">> \o refs[i].name \o <<"\"">>)
               /\ def = NoDef
               /\ NoTransport

C18_Witness ==
  /\ defineLog # << >>
  /\ IsTemplate(decl)
  /\ Len(decl.lua.refs) = 2
  /\ DeclaredIn(decl, decl.lua.refs[1])
  /\ decl.lua.refs[2].acc = "KEYS"
  /\ decl.lua.refs[2].name \notin Range(decl.keys)
  /\ decl.lua.refs[2].name \in Range(decl.args)
  /\ defineLog[1].outcome.tag = "err"

\* C19: when the builder returns a value that is not a CompiledLua object
\* (a string, undefined, null, a LuaToken, an object without the tag),
\* defineScript fails with the TypeError of resolveLua, whose message says
\* that the lua function must return a lua template; compileLua has not
\* been called and no Script object is returned.
C19_BuilderContract ==
  \A n \in 1..Len(defineLog) :
     defineLog[n].decl.lua.form = "returns" =>
       /\ defineLog[n].builderCalls = 1
       /\ defineLog[n].outcome.tag = "err"
       /\ defineLog[n].outcome.error.kind = "TypeError"
       /\ includes(defineLog[n].outcome.error.message,
                   <<"l", "u", "a", " ", "f", "u", "n", "c", "t", "i", "o", "n", " ",
                     "m", "u", "s", "t", " ", "r", "e", "t", "u", "r", "n">>)
       /\ defineLog[n].compileCalls = 0
       /\ compileLog = << >>
       /\ keyIndexMap = << >> /\ argIndexMap = << >>
       /\ def = NoDef

C19_Witness ==
  /\ defineLog # << >>
  /\ decl.lua.form = "returns"
  /\ decl.lua.what = "token"
  /\ defineLog[1].outcome.tag = "err"
  /\ defineLog[1].outcome.error.kind = "TypeError"

\* C20: the keyNames and argNames of the Script object that defineScript
\* returns are the declared names in the order in which the caller wrote
\* them.
C20_DeclaredOrder ==
  \A n \in 1..Len(defineLog) :
     defineLog[n].outcome.tag = "ok" =>
       /\ defineLog[n].outcome.value.keyNames = defineLog[n].decl.keys
       /\ defineLog[n].outcome.value.argNames = defineLog[n].decl.args

(***************************************************************************)
(* Specification of concurrent run / runRaw calls on one definition: every *)
(* call is an execution of the same definition on the same connection (the *)
(* definition declares no field, so that execute reaches getSha at once)   *)
(***************************************************************************)
InitConcurrent ==
  /\ loadCache = << >>
  /\ promises = << >>
  /\ calls = [c \in Calls |-> IdleCall]
  /\ def \in {d \in Defs : d.keyNames = << >> /\ d.argNames = << >>}
  /\ cachedSha = ""
  /\ shaCalls = 0
  /\ TemplateIdle

NextConcurrent ==
  \/ \E c \in Calls, op \in {"run", "runRaw"}, cap \in CapChoices : execute(c, op, "A", NoInput, cap)
  \/ \E c \in Calls : ShaResume(c)
  \/ \E c \in Calls, ans \in FirstAnswers : EvalWithCacheAfterFirst(c, ans)
  \/ \E p \in 1..Len(promises), ans \in ScriptLoadAnswers : ScriptLoadRespond(p, ans)
  \/ \E c \in Calls : EnsureLoadedResume(c)
  \/ \E c \in Calls, ans \in RetryAnswers : EvalWithCacheAfterSecond(c, ans)
  \/ \E c \in Calls, kind \in {"string", "issues"} : ReturnResume(c, kind)

SpecConcurrent == InitConcurrent /\ [][NextConcurrent]_vars

(***************************************************************************)
(* Properties of the memoized hash                                         *)
(***************************************************************************)
\* C21: for each script definition the content hash is computed at most
\* once over the definition's lifetime, whatever the interleaving of
\* concurrent run / runRaw calls: sha1Hex is started at most once, and an
\* execution that passes getSha after the first one never waits for a
\* computation of its own.
C21_HashOnce ==
  /\ shaCalls <= 1
  /\ Cardinality({c \in Calls : calls[c].pc = "awaitSha"}) <= 1

(***************************************************************************)
(* Properties of the retry protocol                                        *)
(***************************************************************************)
IsEval(c) == calls[c].op \in {"evalWithCache", "run", "runRaw"}
FailedNoScript(c) ==
  calls[c].pc = "done" /\ calls[c].outcome.tag = "err" /\ isNoScriptError(calls[c].outcome.error)

\* C22 as stated: no evalWithCache / run / runRaw call ever fails with a
\* script-unknown (NOSCRIPT) error.
C22_Original ==
  \A c \in Calls : IsEval(c) => ~FailedNoScript(c)

\* C22 amended: the NOSCRIPT answer to the first evalsha is never surfaced:
\* the step that receives it enters ensureLoaded instead of ending the
\* call, and the call goes through at most one load and one retry.  A call
\* fails with a NOSCRIPT error only when that error is the answer to its
\* retry evalsha, or the failure of the upload it waited on, which is
\* propagated unchanged.
C22_Amended ==
  /\ [][\A c \in Calls :
          (/\ calls[c].pc = "awaitEvalsha1"
           /\ calls'[c].r1.tag = "err"
           /\ isNoScriptError(calls'[c].r1.error))
            => /\ calls'[c].pc = "awaitLoad"
               /\ calls'[c].loadP \in 1..Len(promises')
               /\ calls'[c].outcome = NoResult]_vars
  /\ [](\A c \in Calls :
          IsEval(c) =>
            /\ nScriptLoad(c) <= 1 /\ nEvalsha(c) <= 2
            /\ FailedNoScript(c) =>
                 /\ FirstWasNoScript(c)
                 /\ calls[c].loadP \in Promises
                 /\ IF promises[calls[c].loadP].state = "fulfilled"
                    THEN nEvalsha(c) = 2 /\ calls[c].outcome = calls[c].r2
                    ELSE /\ promises[calls[c].loadP].state = "rejected"
                         /\ calls[c].outcome = promises[calls[c].loadP].result)

C22_Witness ==
  \E c, d \in Calls :
     /\ calls[c].op = "evalWithCache" /\ FirstWasNoScript(c) /\ FailedNoScript(c)
     /\ calls[c].outcome = Err(ErrNoScript)
     /\ calls[d].op = "evalWithCache" /\ FirstWasNoScript(d)
     /\ calls[d].pc = "done" /\ calls[d].outcome = Ok("v2")

\* C23: the step in which an evalWithCache call receives a successful
\* first evalsha ends the call with exactly that result, having issued
\* that one evalsha and no scriptLoad, and leaves the load cache and the
\* load promises as they were.
C23_HitReturnsFirst ==
  [][\A c \in Calls :
       (/\ calls[c].op = "evalWithCache"
        /\ calls[c].pc = "awaitEvalsha1"
        /\ calls'[c].r1.tag = "ok")
         => /\ calls'[c].pc = "done"
            /\ calls'[c].outcome = calls'[c].r1
            /\ calls'[c].io = <<IoEvalsha(calls[c].sha, calls[c].keys, calls[c].args)>>
            /\ calls'[c].loadP = 0
            /\ loadCache' = loadCache
            /\ promises' = promises]_vars

C23_Witness ==
  \E c \in Calls :
     /\ calls[c].op = "evalWithCache" /\ calls[c].pc = "done"
     /\ calls[c].outcome = Ok("v1")
     /\ nEvalsha(c) = 1 /\ nScriptLoad(c) = 0 /\ calls[c].loadP = 0
     /\ \E p \in Promises : promises[p].redis = calls[c].redis /\ promises[p].state = "pending"

EntryOf(lc, redis, sha) ==
  IF CacheKey(redis) \in DOMAIN lc THEN MapGet(lc[CacheKey(redis)], sha) ELSE 0
StartsUpload(c) ==
  /\ Len(calls'[c].io) = Len(calls[c].io) + 1
  /\ calls'[c].io[Len(calls'[c].io)].cmd = "scriptLoad"

C25_LoadFailureIsFatal ==
  \A c \in Calls :
     (/\ calls[c].op = "evalWithCache"
      /\ calls[c].loadP \in Promises
      /\ promises[calls[c].loadP].state = "rejected")
       => /\ calls[c].pc \in {"awaitLoad", "done"}
          /\ nEvalsha(c) = 1
          /\ calls[c].r2 = NoResult
          /\ nScriptLoad(c) = IF calls[c].initiator THEN 1 ELSE 0
          /\ calls[c].pc = "done" => calls[c].outcome = promises[calls[c].loadP].result

C25_Witness ==
  \E c, d \in Calls :
     /\ calls[c].op = "evalWithCache" /\ calls[d].op = "evalWithCache"
     /\ calls[c].initiator /\ ~calls[d].initiator
     /\ calls[c].loadP = calls[d].loadP /\ calls[c].loadP \in Promises
     /\ promises[calls[c].loadP].state = "rejected"
     /\ calls[c].pc = "done" /\ calls[d].pc = "done"
     /\ calls[c].outcome = Err(ErrLoad) /\ calls[d].outcome = Err(ErrLoad)

\* C26: the outcome of the second evalsha is final.  The step in which an
\* evalWithCache call receives it ends the call with exactly that outcome,
\* value or error (another NOSCRIPT included), issuing nothing and leaving
\* the cache alone; and a call that has ended never issues anything again.
C26_SecondIsFinal ==
  /\ [][\A c \in Calls :
          (calls[c].op = "evalWithCache" /\ calls[c].pc = "awaitEvalsha2" /\ calls'[c] # calls[c])
            => /\ calls'[c].r2 \in RetryAnswers
               /\ calls'[c].pc = "done"
               /\ calls'[c].outcome = calls'[c].r2
               /\ calls'[c].io = calls[c].io
               /\ loadCache' = loadCache
               /\ promises' = promises]_vars
  /\ [][\A c \in Calls : calls[c].pc = "done" => calls'[c] = calls[c]]_vars

C26_Witness ==
  \E c, d \in Calls :
     /\ calls[c].op = "evalWithCache" /\ calls[d].op = "evalWithCache"
     /\ calls[c].pc = "done" /\ calls[d].pc = "done"
     /\ calls[c].r2 = Err(ErrNoScript) /\ calls[c].outcome = Err(ErrNoScript)
     /\ calls[d].r2 = Err(ErrTimeout) /\ calls[d].outcome = Err(ErrTimeout)
     /\ Len(calls[c].io) = 3 /\ nEvalsha(d) = 2

\* C27: the retry evalsha of an evalWithCache call carries the same hash,
\* keys and args as the first attempt, and is issued only when the upload
\* the call waited on has succeeded (and, for the call that started it,
\* after that scriptLoad).
C27_RetrySameArguments ==
  \A c \in Calls :
     (calls[c].op = "evalWithCache" /\ nEvalsha(c) >= 2)
       => LET io == calls[c].io
              first == IoEvalsha(calls[c].sha, calls[c].keys, calls[c].args)
          IN /\ io[1] = first
             /\ io[Len(io)] = first
             /\ io = IF calls[c].initiator
                     THEN <<first, IoScriptLoad(calls[c].script), first>>
                     ELSE <<first, first>>
             /\ FirstWasNoScript(c)
             /\ calls[c].loadP \in Promises
             /\ promises[calls[c].loadP].state = "fulfilled"

C27_Witness ==
  \E c \in Calls :
     /\ calls[c].op = "evalWithCache" /\ calls[c].pc = "awaitEvalsha2"
     /\ nEvalsha(c) = 2
     /\ calls[c].keys # << >> /\ calls[c].args # << >>
     /\ promises[calls[c].loadP].state = "fulfilled"

(***************************************************************************)
(* Properties of the transport calls of run / runRaw                       *)
(***************************************************************************)
\* C30: no run, runRaw or ensureLoaded call, and so no evalWithCache frame
\* inside an execution, ever invokes the transport's eval: every transport
\* call is an evalsha or a scriptLoad, also after an upload or a retry has
\* failed.
C30_NeverEval ==
  \A c \in Calls :
     /\ nEval(c) = 0
     /\ \A i \in 1..Len(calls[c].io) : calls[c].io[i].cmd \in {"evalsha", "scriptLoad"}
     /\ Len(calls[c].io) <= 3

C30_Witness ==
  \E c, d \in Calls :
     /\ calls[c].op = "ensureLoaded" /\ calls[c].pc = "done"
     /\ calls[c].outcome = Err(ErrLoad)
     /\ IsRun(d) /\ calls[d].pc = "done"
     /\ calls[d].r2.tag = "err" /\ calls[d].outcome = calls[d].r2
     /\ Len(calls[d].io) = 3

(***************************************************************************)
(* Properties of the accessor objects                                      *)
(***************************************************************************)
\* the values the builder of defineLog[n] interpolated, as compileLua
\* received them (one defineScript call is made, so its compileLua call is
\* the first of the log)
TokensOf(n) == compileLog[1].compiled.tokens

\* C29 as stated: the accessors handed to a builder produce a LuaToken only
\* for declared names: no value a builder read from KEYS / ARGV under an
\* undeclared name is a LuaToken.
C29_Original ==
  \A n \in 1..Len(defineLog) :
     LET d == defineLog[n].decl
     IN (IsTemplate(d) /\ defineLog[n].compileCalls = 1)
          => \A i \in 1..Len(d.lua.refs) :
                isLuaToken(TokensOf(n)[i]) => DeclaredIn(d, d.lua.refs[i])

\* C29 amended: the accessors produce a LuaToken of their kind for every
\* name read, declared or not; a token for an undeclared name is rejected
\* only when the template holding it is compiled, which makes defineScript
\* fail.
C29_Amended ==
  \A n \in 1..Len(defineLog) :
     LET d == defineLog[n].decl
     IN IsTemplate(d)
          => /\ defineLog[n].builderCalls = 1
             /\ defineLog[n].compileCalls = 1
             /\ Len(TokensOf(n)) = Len(d.lua.refs)
             /\ \A i \in 1..Len(d.lua.refs) :
                   /\ isLuaToken(TokensOf(n)[i])
                   /\ TokensOf(n)[i] = LuaToken(RefKind(d.lua.refs[i]), d.lua.refs[i].name)
                   /\ ~DeclaredIn(d, d.lua.refs[i]) => defineLog[n].outcome.tag = "err"

C29_Witness ==
  /\ defineLog # << >>
  /\ IsTemplate(decl)
  /\ decl.keys = << >> /\ decl.args = << >>
  /\ Len(decl.lua.refs) = 1
  /\ defineLog[1].compileCalls = 1
  /\ isLuaToken(compileLog[1].compiled.tokens[1])
  /\ compileLog[1].compiled.tokens[1].name = decl.lua.refs[1].name
  /\ defineLog[1].outcome.tag = "err"

(***************************************************************************)
(* Specification of a definition's lifetime: one declaration is handed to  *)
(* defineScript, and the Script object it returns is executed by run /     *)
(* runRaw calls on one connection                                          *)
(***************************************************************************)
\* the declarations of this specification: no args, at most the key "k",
\* literal text or a builder around at most one interpolation
LifetimeDecls ==
  {d \in Decls :
     /\ d.args = << >>
     /\ d.keys \in {<< >>, <<<<"k">>>>}
     /\ d.lua.form \in {"text", "template"}
     /\ d.lua.style = "text"
     /\ d.lua.refs \in {<< >>, <<[acc |-> "KEYS", name |-> <<"k">>]>>}}

\* the declared fields are given and their capabilities accept at once
LifetimeCaps == {cap \in CapChoices : cap.mode = "sync" /\ cap.kind = "string"}

InitLifetime ==
  /\ loadCache = << >>
  /\ promises = << >>
  /\ calls = [c \in Calls |-> IdleCall]
  /\ def = NoDef
  /\ cachedSha = ""
  /\ shaCalls = 0
  /\ decl \in LifetimeDecls
  /\ defineLog = << >>
  /\ compileLog = << >>
  /\ keyIndexMap = << >>
  /\ argIndexMap = << >>

NextLifetime ==
  \/ defineScript
  \/ \E c \in Calls, input \in InputsOf(def), cap \in LifetimeCaps :
        /\ def # NoDef
        /\ def.keyNames # << >> => input # NoInput
        /\ execute(c, "runRaw", "A", input, cap)
  \/ \E c \in Calls, cap \in LifetimeCaps : ValidateResume(c, cap)
  \/ \E c \in Calls : ShaResume(c)
  \/ \E c \in Calls, ans \in FirstAnswers : EvalWithCacheAfterFirst(c, ans)
  \/ \E p \in 1..Len(promises), ans \in ScriptLoadAnswers : ScriptLoadRespond(p, ans)
  \/ \E c \in Calls : EnsureLoadedResume(c)
  \/ \E c \in Calls, ans \in RetryAnswers : EvalWithCacheAfterSecond(c, ans)

SpecLifetime == InitLifetime /\ [][NextLifetime]_vars

(***************************************************************************)
(* Properties of a definition's lifetime                                   *)
(***************************************************************************)
\* C28: a builder is called once, inside defineScript, and the text
\* compileLua makes of its result with the definition's own name lists is
\* the definition's source; literal text is the source as written, with no
\* builder call and no compileLua call.  Executions never call the builder
\* or compileLua again and never change the definition: every scriptLoad
\* of an execution carries that source and every evalsha its hash.
C28_BuilderOnce ==
  /\ [](Len(defineLog) <= 1 /\ Len(compileLog) <= 1)
  /\ [](\A n \in 1..Len(defineLog) :
          LET d == defineLog[n].decl
              made == defineLog[n].outcome
          IN IF d.lua.form = "text"
             THEN /\ defineLog[n].builderCalls = 0
                  /\ defineLog[n].compileCalls = 0
                  /\ made.tag = "ok"
                  /\ made.value.lua = Str_Source
                  /\ def = made.value
             ELSE /\ defineLog[n].builderCalls = 1
                  /\ defineLog[n].compileCalls = 1
                  /\ compileLog[1].compiled =
                        CallBuilder(d.lua, createTokenProxy("key"), createTokenProxy("arg")).value
                  /\ compileLog[1].keyNames = ObjectKeys(d.keys)
                  /\ compileLog[1].argNames = ObjectKeys(d.args)
                  /\ made = (IF compileLog[1].result.tag = "ok"
                             THEN Ok(Definition(d.name, compileLog[1].result.value,
                                                ObjectKeys(d.keys), ObjectKeys(d.args), d.returns))
                             ELSE compileLog[1].result)
                  /\ made.tag = "ok" => def = made.value)
  /\ [](\A c \in Calls :
          /\ calls[c].pc # "idle" => def # NoDef
          /\ \A i \in 1..Len(calls[c].io) :
               calls[c].io[i].what = IF calls[c].io[i].cmd = "scriptLoad"
                                      THEN def.lua
                                      ELSE sha1Hex(def.lua))
  /\ [](cachedSha # "" => cachedSha = sha1Hex(def.lua))
  /\ [][calls' # calls => UNCHANGED <<def, templateVars>>]_vars

C28_Witness ==
  /\ defineLog # << >>
  /\ decl.lua.form = "template" /\ Len(decl.lua.refs) = 1
  /\ defineLog[1].builderCalls = 1
  /\ def.lua = Segments("text", 1)[1] \o Str_KEYS \o <<"1">> \o Str_Close \o Segments("text", 1)[2]
  /\ shaCalls = 1
  /\ \E c, d \in Calls :
        /\ c # d
        /\ calls[c].pc = "done" /\ nScriptLoad(c) = 1 /\ calls[c].io[2].what = def.lua
        /\ calls[d].pc = "done" /\ nEvalsha(d) = 1 /\ calls[d].outcome = Ok("v1")
        /\ calls[d].keys # << >>

(***************************************************************************)
(* Specification of evalWithCache callers on one connection and one hash   *)
(* whose first evalsha is rejected with any kind of thrown value           *)
(***************************************************************************)
\* message texts: the marker alone, in mixed case after a prefix, in lower
\* case before a suffix, in mixed case in the middle; and texts without it
ThrownTexts ==
  { Str_NOSCRIPT,
    Str_noscript,
    <<"n", "o", "s", "c", "r", "i", "p", "t", " ", "x">>,
    <<"x", " ", "N", "o", "S", "c", "R", "i", "P", "t", " ", "x">>,
    Str_timeout,
    <<"N", "O", "S", "C", "R", "I", "P">>,
    <<"N", "O", " ", "S", "C", "R", "I", "P", "T">>,
    <<"N", "O", "S", "C", "R", "I", "P", " ", "T">>,
    << >> }

\* values that are neither an Error nor a string: null, undefined, a
\* number, an object that is not an Error and has a message property
JsThrown(kind, msg) == [kind |-> kind, message |-> msg]
ThrownValues ==
  {JsError(t) : t \in ThrownTexts}
    \cup {JsString(t) : t \in ThrownTexts}
    \cup {JsThrown("null", << >>), JsThrown("undefined", << >>), JsThrown("number", << >>),
          JsThrown("object", Str_NOSCRIPT)}

NextThrown ==
  \/ \E c \in Calls, ka \in ArgChoices : evalWithCache(c, "A", "h1", ka)
  \/ \E c \in Calls, e \in ThrownValues : EvalWithCacheAfterFirst(c, Err(e))
  \/ \E p \in 1..Len(promises), ans \in ScriptLoadAnswers : ScriptLoadRespond(p, ans)
  \/ \E c \in Calls : EnsureLoadedResume(c)
  \/ \E c \in Calls : EvalWithCacheAfterSecond(c, Ok("v2"))

SpecThrown == Init /\ [][NextThrown]_vars

(***************************************************************************)
(* Properties of isNoScriptError                                           *)
(***************************************************************************)
\* the marker, letter by letter, in both cases
MarkerLower == <<"n", "o", "s", "c", "r", "i", "p", "t">>
MarkerAt(text, i) ==
  /\ i + Len(Str_NOSCRIPT) <= Len(text)
  /\ \A j \in 1..Len(Str_NOSCRIPT) : text[i + j] \in {Str_NOSCRIPT[j], MarkerLower[j]}
HoldsMarker(e) ==
  /\ e.kind \in {"Error", "string"}
  /\ \E i \in 0..Len(e.message) : MarkerAt(e.message, i)

\* C31: isNoScriptError is true exactly for an Error whose message, or a
\* string which itself, holds the marker NOSCRIPT in any letter case at any
\* position, and false for every other value; a call whose first evalsha
\* was rejected entered ensureLoaded exactly when the thrown value is of
\* that sort, and otherwise ended with the thrown value and no scriptLoad.
C31_MarkerDetection ==
  \A c \in Calls :
        calls[c].r1.tag = "err"
          => \E holds \in {HoldsMarker(calls[c].r1.error)} :
               /\ isNoScriptError(calls[c].r1.error) = holds
               /\ (calls[c].loadP # 0) = holds
               /\ ~holds => /\ calls[c].pc = "done"
                            /\ calls[c].outcome = calls[c].r1
                            /\ nScriptLoad(c) = 0

C31_Witness ==
  \E c, d \in Calls :
     /\ calls[c].r1 = Err(JsString(<<"x", " ", "N", "o", "S", "c", "R", "i", "P", "t", " ", "x">>))
     /\ calls[c].loadP # 0 /\ nScriptLoad(c) = 1
     /\ calls[d].r1 = Err(JsThrown("object", Str_NOSCRIPT))
     /\ calls[d].pc = "done" /\ calls[d].loadP = 0

(***************************************************************************)
(* Properties of deferred validation                                       *)
(***************************************************************************)
IsPending(entry) == entry.result.tag = "pending"
SyncResults(c, i) ==
  {CapResult(kind, FieldOrder(def)[i], calls[c].vlog[i].value) : kind \in AnswerKinds}

\* C32: a capability that defers its answer changes nothing but the
\* moment at which the answer is there.  Only the field invoked last can
\* be pending, and while it is the call waits: it has collected the
\* outputs of the fields before it, issued nothing, and its only possible
\* step is the completion, which leaves the call exactly as a synchronous
\* answer of the same kind would have left it (same recorded result,
\* nothing else changed); so the next capability, the arrays and the error
\* are the same in both forms.
C32_DeferredEquivalence ==
  /\ [](\A c \in Calls :
          IsRun(c) =>
            \A i \in 1..Len(calls[c].vlog) :
               /\ calls[c].vlog[i].result \in SyncResults(c, i) \cup {VPending}
               /\ IsPending(calls[c].vlog[i])
                    => /\ i = Len(calls[c].vlog)
                       /\ calls[c].pc = "awaitValidate"
                       /\ Len(calls[c].keys) + Len(calls[c].args) = i - 1
                       /\ calls[c].io = << >>)
  /\ [][\A c \in Calls :
          (/\ IsRun(c)
           /\ calls[c].vlog # << >>
           /\ IsPending(calls[c].vlog[Len(calls[c].vlog)])
           /\ calls'[c] # calls[c])
            => LET n == Len(calls[c].vlog)
               IN /\ calls'[c].vlog[n].result \in SyncResults(c, n)
                  /\ calls'[c] = [calls[c] EXCEPT !.vlog[n].result = calls'[c].vlog[n].result]
                  /\ UNCHANGED <<loadCache, promises, def, cachedSha, shaCalls>>]_vars

C32_Witness ==
  \E c \in Calls :
     /\ IsRun(c) /\ NumFields = 3
     /\ Len(calls[c].vlog) = 2
     /\ Accepted(calls[c].vlog[1])
     /\ IsPending(calls[c].vlog[2])
     /\ calls[c].keys = <<calls[c].vlog[1].result.value.v>>
     /\ calls[c].pc = "awaitValidate"

(***************************************************************************)
(* Specification of the callers of one entry when every transport call     *)
(* completes: the store answers every evalsha and every scriptLoad, and    *)
(* the event loop runs every reaction of a settled promise                 *)
(***************************************************************************)
FairEngine ==
  /\ Init /\ [][NextEntry]_vars
  /\ \A c \in Calls :
        /\ WF_vars(EnsureLoadedResume(c))
        /\ WF_vars(\E ans \in EvalshaAnswers : EvalWithCacheAfterFirst(c, ans))
        /\ WF_vars(\E ans \in EvalshaAnswers : EvalWithCacheAfterSecond(c, ans))
  /\ \A p \in 1..MaxCalls : WF_vars(\E ans \in ScriptLoadAnswers : ScriptLoadRespond(p, ans))

(***************************************************************************)
(* Properties of the life of an evalWithCache call                         *)
(***************************************************************************)
\* NotAttempted, EvalAttempted, Loading, Retried, Done, Failed
PhaseOf(call) ==
  CASE call.pc = "idle" -> "NotAttempted"
    [] call.pc = "awaitEvalsha1" -> "EvalAttempted"
    [] call.pc = "awaitLoad" -> "Loading"
    [] call.pc = "awaitEvalsha2" -> "Retried"
    [] call.pc = "done" /\ call.outcome.tag = "ok" -> "Done"
    [] call.pc = "done" /\ call.outcome.tag = "err" -> "Failed"
    [] OTHER -> "none"

PhaseSteps ==
  {<<"NotAttempted", "EvalAttempted">>,
   <<"EvalAttempted", "Done">>, <<"EvalAttempted", "Failed">>, <<"EvalAttempted", "Loading">>,
   <<"Loading", "Retried">>, <<"Loading", "Failed">>,
   <<"Retried", "Done">>, <<"Retried", "Failed">>}

\* C33: an evalWithCache call moves only along NotAttempted,
\* EvalAttempted, then Done, Failed, or Loading followed by Retried (then
\* Done or Failed) or Failed; when every transport call completes, a call
\* that was started reaches Done or Failed, and a call waiting on an upload
\* that has completed leaves Loading.
C33_Terminates ==
  /\ [][\A c \in Calls :
          (calls'[c].op = "evalWithCache" /\ PhaseOf(calls'[c]) # PhaseOf(calls[c]))
            => <<PhaseOf(calls[c]), PhaseOf(calls'[c])>> \in PhaseSteps]_vars
  /\ \A c \in Calls :
        (calls[c].op = "evalWithCache")
          ~> (calls[c].op = "evalWithCache" /\ PhaseOf(calls[c]) \in {"Done", "Failed"})
  /\ \A c \in Calls : \A p \in 1..MaxCalls :
        (calls[c].op = "evalWithCache" /\ IsWaiter(c, p) /\ ~calls[c].initiator
           /\ promises[p].state # "pending")
          ~> (calls[c].op = "evalWithCache" /\ PhaseOf(calls[c]) \in {"Retried", "Done", "Failed"})

C33_Witness ==
  \E c, d \in Calls :
     /\ c # d
     /\ calls[c].op = "evalWithCache" /\ calls[d].op = "evalWithCache"
     /\ calls[c].loadP = calls[d].loadP /\ calls[c].loadP # 0
     /\ calls[c].initiator /\ ~calls[d].initiator
     /\ PhaseOf(calls[c]) = "Failed" /\ nEvalsha(c) = 2
     /\ PhaseOf(calls[d]) = "Done" /\ nEvalsha(d) = 2

(***************************************************************************)
(* hashResult: pairsToObject and the schema hashResult returns             *)
(***************************************************************************)
\* longest array the store returns
MaxElems == 4

\* values of a raw result and of its elements; typeof
\* (a string or number by its text v, an array by its items)
Raw(type, v, items) == [type |-> type, v |-> v, items |-> items]
Typeof(x) == IF x.type \in {"null", "array"} THEN "object" ELSE x.type

\* an ordinary object: its own properties and its prototype
EmptyObject == [own |-> << >>, proto |-> Raw("Object.prototype", "", << >>)]

\* result[key] = value on an object made by an object literal: an own
\* property is written, except that the name __proto__, while not an own
\* property and while the prototype chain reaches Object.prototype, is the
\* inherited accessor, whose setter replaces the prototype when value is an
\* object or null and does nothing otherwise
SetProperty(obj, key, value) ==
  IF key = "__proto__" /\ key \notin DOMAIN obj.own /\ obj.proto.type # "null"
  THEN IF Typeof(value) = "object" THEN [obj EXCEPT !.proto = value] ELSE obj
  ELSE [obj EXCEPT !.own = [k \in (DOMAIN obj.own) \cup {key} |-> IF k = key THEN value ELSE obj.own[k]]]

RECURSIVE PairsLoop(_, _, _)
PairsLoop(arr, i, result) ==
  IF ~(i < Len(arr)) THEN Ok(result)
  ELSE LET key == arr[i + 1]
           value == arr[i + 2]
       IN IF Typeof(key) # "string"
          THEN Err(JsError(<<"Expected string key at index ", ToString(i), ", got ", Typeof(key)>>))
          ELSE PairsLoop(arr, i + 2, SetProperty(result, key.v, value))

pairsToObject_AnyLength(arr) ==
  IF arr.type # "array"
  THEN Err(JsError(<<"Expected array of key-value pairs, got ", Typeof(arr)>>))
  ELSE PairsLoop(IF Len(arr.items) % 2 # 0 THEN arr.items \o <<Raw("undefined", "", << >>)>> ELSE arr.items,
                 0, EmptyObject)

\* pairsToObject(arr): the object, or the Error it throws
pairsToObject(arr) ==
  IF arr.type # "array"
  THEN Err(JsError(<<"Expected array of key-value pairs, got ", Typeof(arr)>>))
  ELSE IF Len(arr.items) % 2 # 0
  THEN Err(JsError(<<"Expected even number of elements (key-value pairs), got ",
                     ToString(Len(arr.items))>>))
  ELSE PairsLoop(arr.items, 0, EmptyObject)

\* the inner schema is the caller's: it answers a value or issues
InnerKinds == {"value", "issues"}
InnerValidate(kind, obj) ==
  IF kind = "value"
  THEN [tag |-> "ok", value |-> [parsed |-> obj], issues |-> << >>]
  ELSE [tag |-> "fail", value |-> Raw("undefined", "", << >>), issues |-> Issue_return]

\* validate of the schema hashResult(schema) returns: what it returns, and
\* the object it handed to the inner schema (NoResult when it did not call
\* it)
hashResult(value, kind) ==
  LET obj == pairsToObject(value)
  IN IF obj.tag = "err"
     THEN [result |-> [tag |-> "fail", value |-> Raw("undefined", "", << >>),
                       issues |-> <<obj.error.message>>],
           passed |-> NoResult]
     ELSE [result |-> InnerValidate(kind, obj.value), passed |-> obj]

\* run resumes after parseStandard(returns, raw, ...) where returns is a
\* hashResult schema
HashReturnResume(c, kind) ==
  LET call == calls[c]
      raw == call.retlog[Len(call.retlog)]
  IN /\ call.pc = "awaitReturn"
     /\ \E validated \in {hashResult(raw, kind)} :
          calls' = [calls EXCEPT ![c].pc = "done",
                       ![c].vres = validated.passed,
                       ![c].outcome = IF validated.result.tag = "fail"
                                      THEN Err(ScriptReturnError(def.name, validated.result.issues, raw))
                                      ELSE Ok(validated.result.value)]
     /\ UNCHANGED <<loadCache, promises, def, templateVars, cachedSha, shaCalls>>

(***************************************************************************)
(* Specification of run on a definition whose returns is a hashResult      *)
(* schema: one execution, the store answers the first evalsha with a value *)
(***************************************************************************)
\* what the store returns: arrays of strings, numbers and null, and values
\* that are not arrays
RawElems ==
  { Raw("string", "a", << >>), Raw("string", "b", << >>), Raw("string", "__proto__", << >>),
    Raw("number", "1", << >>), Raw("null", "", << >>) }
RawValues ==
  {Raw("array", "", q) : q \in SeqsUpTo(RawElems, MaxElems)}
    \cup {Raw("string", "a", << >>), Raw("null", "", << >>), Raw("number", "1", << >>)}

InitHash ==
  /\ loadCache = << >>
  /\ promises = << >>
  /\ calls = [c \in Calls |-> IdleCall]
  /\ def \in {d \in Defs : d.keyNames = << >> /\ d.argNames = << >> /\ d.returns}
  /\ cachedSha = ""
  /\ shaCalls = 0
  /\ TemplateIdle

NextHash ==
  \/ \E c \in {1}, cap \in CapChoices : execute(c, "run", "A", NoInput, cap)
  \/ \E c \in Calls : ShaResume(c)
  \/ \E c \in Calls, raw \in RawValues : EvalWithCacheAfterFirst(c, Ok(raw))
  \/ \E c \in Calls, kind \in InnerKinds : HashReturnResume(c, kind)

SpecHash == InitHash /\ [][NextHash]_vars

(***************************************************************************)
(* C34, C35: the schema hashResult returns                                 *)
(***************************************************************************)
\* the raw result the execution c handed to its return schema
RawOf(c) == calls[c].retlog[Len(calls[c].retlog)]
Returned(c) == calls[c].pc = "done" /\ calls[c].retlog # << >>

\* an array of key-value pairs: even length, strings at the key positions
KeyPositions(items) == {i \in 1..Len(items) : i % 2 = 1}
IsPairs(raw) ==
  /\ raw.type = "array"
  /\ Len(raw.items) % 2 = 0
  /\ \A i \in KeyPositions(raw.items) : raw.items[i].type = "string"

\* the object that maps each key to the element following its last
\* occurrence
LastOf(items, k) ==
  CHOOSE i \in KeyPositions(items) :
    /\ items[i].v = k
    /\ \A j \in KeyPositions(items) : items[j].v = k => j <= i
PairsObject(items) ==
  [own |-> [k \in {items[i].v : i \in KeyPositions(items)} |-> items[LastOf(items, k) + 1]],
   proto |-> EmptyObject.proto]

\* C34: for every even-length array whose even-indexed elements are
\* strings, the schema hashResult returns hands the inner schema the object
\* that maps each key to the element after its last occurrence (the empty
\* object for the empty array), and the execution ends with the inner
\* schema's answer: its value, or a return error carrying its issues.
C34_PairsToObject ==
  \A c \in Calls :
    Returned(c) /\ IsPairs(RawOf(c)) =>
      /\ calls[c].vres = Ok(PairsObject(RawOf(c).items))
      /\ calls[c].outcome \in
           { Ok(InnerValidate("value", PairsObject(RawOf(c).items)).value),
             Err(ScriptReturnError(def.name, Issue_return, RawOf(c))) }

\* how the one issue of a malformed raw result starts
ProblemOf(raw) ==
  IF raw.type # "array" THEN "Expected array of key-value pairs, got "
  ELSE IF Len(raw.items) % 2 # 0 THEN "Expected even number of elements (key-value pairs), got "
  ELSE "Expected string key at index "

\* C35: when the raw result is not an array, has odd length, or has a
\* non-string element at a key position, the schema hashResult returns does
\* not invoke the inner schema and does not throw: the execution ends with
\* the return validation error of the definition, carrying the raw result
\* and exactly one issue, whose message describes the problem.
C35_MalformedIsOneIssue ==
  \A c \in Calls :
    Returned(c) /\ ~IsPairs(RawOf(c)) =>
      /\ calls[c].vres = NoResult
      /\ calls[c].outcome.tag = "err"
      /\ calls[c].outcome.error.kind = "ScriptReturnError"
      /\ calls[c].outcome.error.scriptName = def.name
      /\ calls[c].outcome.error.raw = RawOf(c)
      /\ Len(calls[c].outcome.error.issues) = 1
      /\ calls[c].outcome.error.issues[1][1] = ProblemOf(RawOf(c))

C35_Witness ==
  \E c \in Calls :
    /\ Returned(c)
    /\ RawOf(c).type = "array"
    /\ Len(RawOf(c).items) = 3
    /\ RawOf(c).items[1].type = "string"
    /\ calls[c].outcome.tag = "err"
    /\ calls[c].outcome.error.kind = "ScriptReturnError"

(***************************************************************************)
(* C36: calls after a successful upload                                    *)
(***************************************************************************)
\* the succeeded upload for the connection and hash of call c, if any
SucceededFor(c) ==
  {p \in Promises : /\ promises[p].state = "fulfilled"
                    /\ promises[p].redis = calls[c].redis
                    /\ promises[p].sha = calls[c].sha}

\* C36: once an upload for a hash has succeeded on a connection, an
\* evalWithCache call on that connection whose first evalsha is then
\* answered script-unknown joins the succeeded entry without starting an
\* upload and without changing the cache; such a call ends with zero
\* scriptLoad and exactly two evalsha, its outcome is what the second
\* evalsha returned, and the entry is still in the cache.
C36_AfterSuccessRetryOnly ==
  /\ [][\A c \in Calls :
          ( /\ calls[c].op = "evalWithCache"
            /\ calls[c].pc = "awaitEvalsha1"
            /\ calls'[c].pc = "awaitLoad"
            /\ SucceededFor(c) # {} )
          => /\ calls'[c].loadP \in SucceededFor(c)
             /\ ~calls'[c].initiator
             /\ nScriptLoad(c)' = 0
             /\ UNCHANGED <<loadCache, promises>>]_vars
  /\ [](\A c \in Calls :
          ( /\ calls[c].op = "evalWithCache"
            /\ calls[c].pc = "done"
            /\ ~calls[c].initiator
            /\ calls[c].loadP \in SucceededFor(c) )
          => /\ nScriptLoad(c) = 0
             /\ nEvalsha(c) = 2
             /\ calls[c].outcome = calls[c].r2
             /\ InCache(calls[c].loadP))

C36_Witness ==
  \E c, d \in Calls :
     /\ calls[c].op = "evalWithCache" /\ calls[c].pc = "done"
     /\ ~calls[c].initiator
     /\ calls[c].loadP \in SucceededFor(c)
     /\ calls[d].initiator /\ calls[d].loadP = calls[c].loadP /\ calls[d].pc = "done"
     /\ calls[c].r2 = Err(ErrNoScript)
     /\ calls[c].outcome = Err(ErrNoScript)
     /\ nScriptLoad(c) = 0 /\ nEvalsha(c) = 2
     /\ InCache(calls[c].loadP)

(***************************************************************************)
(* C37: the removal after a failed upload                                  *)
(***************************************************************************)
EntryAt(redis, sha) == MapGet(Entries(redis), sha)

\* a call enters ensureLoaded in this step and finds the failed upload p
\* still registered
ArrivesAtFailed(c, p) ==
  /\ calls[c].pc # "awaitLoad"
  /\ calls'[c].pc = "awaitLoad"
  /\ p = EntryAt(calls'[c].redis, calls'[c].sha)
  /\ Rejected(p)

\* C37: an entry leaves a connection's cache only in the step in which the
\* initiator of that entry's upload resumes after the upload has failed:
\* never while the upload is in flight or after it has succeeded, and never
\* replaced by another.  While a failed upload is still registered no newer
\* upload for its connection and hash exists; a call arriving then joins
\* the failed entry without a scriptLoad, and every call that waited on a
\* failed upload ends with that upload's error.
C37_RemovalOnlyOfFailed ==
  /\ [][\A redis \in Conns, sha \in Hashes :
          (EntryAt(redis, sha) # 0 /\ EntryAt(redis, sha)' # EntryAt(redis, sha))
            => /\ Rejected(EntryAt(redis, sha))
               /\ EntryAt(redis, sha)' = 0
               /\ \E c \in Calls : /\ calls[c].loadP = EntryAt(redis, sha)
                                   /\ calls[c].initiator
                                   /\ calls[c].pc = "awaitLoad"
                                   /\ calls'[c].pc = "done"]_vars
  /\ [](\A p, q \in Promises : (Rejected(p) /\ InCache(p) /\ SameEntry(p, q)) => q <= p)
  /\ [][\A c \in Calls, p \in Promises :
          ArrivesAtFailed(c, p)
            => /\ calls'[c].loadP = p
               /\ ~calls'[c].initiator
               /\ nScriptLoad(c)' = nScriptLoad(c)
               /\ promises' = promises
               /\ \A redis \in Conns, sha \in Hashes :
                     (calls'[c].redis = redis /\ calls'[c].sha = sha) => EntryAt(redis, sha)' = p]_vars
  /\ [](\A c \in Calls :
          (calls[c].pc = "done" /\ calls[c].loadP # 0 /\ Rejected(calls[c].loadP))
            => calls[c].outcome = promises[calls[c].loadP].result)

\* a failed upload is still registered, and a caller has joined it
C37_Witness ==
  \E p \in Promises, c, d \in Calls :
     /\ Rejected(p) /\ InCache(p) /\ ~promises[p].handled
     /\ calls[c].loadP = p /\ calls[c].initiator /\ calls[c].pc = "awaitLoad"
     /\ calls[d].loadP = p /\ ~calls[d].initiator /\ calls[d].pc = "awaitLoad"

(***************************************************************************)
(* C38: separate index spaces of keys and args                             *)
(***************************************************************************)
InBothLists(call, name) == name \in Range(call.keyNames) /\ name \in Range(call.argNames)

\* KEYS[i] / ARGV[i] as the compiled text spells it
IndexedText(kind, i) ==
  (IF kind = "key" THEN <<"K", "E", "Y", "S">> ELSE <<"A", "R", "G", "V">>)
    \o <<"[">> \o NumberToString(i) \o <<"]">>

\* C38: when a name is declared both as a key and as an arg, a key
\* reference to it compiles to KEYS[i], i its position among the key names,
\* and an arg reference to it compiles to ARGV[j], j its position among
\* the arg names: the index of a reference depends only on the list of its
\* own kind, and the compiled text is the template with each reference
\* replaced by that text.
C38_SeparateIndexSpaces ==
  \A n \in 1..Len(compileLog) :
     LET call == compileLog[n]
         tokens == call.compiled.tokens
     IN (AllDeclared(call) /\ \E i \in 1..Len(tokens) : InBothLists(call, tokens[i].name))
          => /\ call.result.tag = "ok"
             /\ Len(call.refs) = Len(tokens)
             /\ \A i \in 1..Len(tokens) :
                  InBothLists(call, tokens[i].name) =>
                    /\ call.refs[i].kind = tokens[i].kind
                    /\ call.refs[i].index =
                         (IF tokens[i].kind = "key"
                          THEN PositionIn(call.keyNames, tokens[i].name)
                          ELSE PositionIn(call.argNames, tokens[i].name))
                    /\ includes(call.result.value, IndexedText(tokens[i].kind, call.refs[i].index))
             /\ call.result.value = TextUpTo(call, Len(tokens))

C38_Witness ==
  \E n \in 1..Len(compileLog) :
     LET call == compileLog[n]
     IN /\ call.result.tag = "ok"
        /\ Len(call.refs) = 2
        /\ call.refs[1].name = call.refs[2].name
        /\ call.refs[1].kind = "key" /\ call.refs[2].kind = "arg"
        /\ call.refs[1].index = 2 /\ call.refs[2].index = 1
        /\ includes(call.result.value, IndexedText("key", 2))
        /\ includes(call.result.value, IndexedText("arg", 1))

====
